---- MODULE Spec2Model ----
(***************************************************************************)
(* The streaming-event client of @solid-primitives/sse: the reactive       *)
(* connection manager (createSSE), the raw connection factory (makeSSE),   *)
(* the worker transport (WorkerEventSource / makeSSEWorker) and the        *)
(* worker-side registry (worker-handler).                                  *)
(*                                                                         *)
(* The program's functions are operators from a state record to a state    *)
(* record, so that a function calling another is an operator applying      *)
(* another; every action of Next is one event-loop task: a caller          *)
(* operation, a platform event of one EventSource, the delivery of one     *)
(* message of the worker channel, or the reconnect timer firing.           *)
(***************************************************************************)
EXTENDS Integers, Sequences, FiniteSets, TLC

\* ------------------------------------------------------------------ bounds
MaxHandles == 2  \* transport handles one manager opens in a behaviour
MaxRetries == 1  \* largest explicit `retries` of the reconnect option
MaxQueue   == 1  \* messages in flight from the worker to the main thread
MaxLen     == 3  \* characters of the payload a transformer is applied to

\* --------------------------------------------------------------- constants
CONNECTING == 0
OPEN       == 1
CLOSED     == 2
Infinity   == 1000000  \* stands for the retry budget of `reconnect: true`
Absent     == -1  \* an option field that is not given
undefined  == 0   \* no handle / no timer / no error (handle ids start at 1)

Urls         == {"u1", "u2"}
Payloads     == {"a", "b"}
initialValue == "initial"

\* the values of the `transform` option: not given, or a parser that turns the
\* payload "a" into "A" and throws on every other payload
Transforms == {"none", "parse"}
Thrown     == "thrown"

Ids == 1..MaxHandles

\* the values of the `reconnect` option: false, true, {retries: n}, {}
ReconnectOptions ==
  {[kind |-> "false", retries |-> Absent], [kind |-> "true", retries |-> Absent]}
    \cup {[kind |-> "object", retries |-> n] : n \in (0..MaxRetries) \cup {Absent}}

VARIABLES
  isServer,       \* the platform has no connection capability (server rendering)
  transport,      \* "direct" (makeSSE) or "worker" (makeSSEWorker): the source factory
  reconnect,      \* options.reconnect
  transform,      \* options.transform
  events,         \* options.events: the names the caller passed handlers for
  url,            \* the current value of the address signal
  prevUrl,        \* the address the reactive computation saw last
  source,         \* signal: the current handle, or undefined
  data,           \* signal: latest payload
  error,          \* signal: the handle whose error event was recorded, or undefined
  readyState,     \* signal
  retriesLeft,
  reconnectTimer, \* id of the timer the manager remembers, or undefined
  currentCleanup, \* the handle whose release function the manager holds, or undefined
  disposed,       \* the owner scope has been disposed
  timers,         \* the platform's pending timeouts: records [id, url]
  nextId,         \* the next fresh handle / correlation id
  opened,         \* handle id -> [url, fresh]: the resolvedUrl of the _open call that
                  \* made it, and whether connect (fresh) or the timer called _open
  instances,      \* EventSource objects: id -> [readyState, listening, ctx]
  proxies,        \* WorkerEventSource objects: id -> [readyState, subscribed, listening]
  sent,           \* every message posted to the worker target, in order
  received,       \* how many messages of sent the worker has taken
  toClient,       \* channel worker -> main
  connections,    \* worker-handler registry: the ids that have a release function
  heard,          \* the event a callback of the caller received in the last task
  called          \* the user callback the last task invoked: [cb, h]; cb is
                  \* "uncaught" when a handler of h ended the task with an exception

vars == <<isServer, transport, reconnect, transform, events, url, prevUrl, source, data, error, readyState,
          retriesLeft, reconnectTimer, currentCleanup, disposed, timers, nextId,
          opened, instances, proxies, sent, received, toClient, connections,
          heard, called>>

\* the whole state as one record, and back
St ==
  [isServer |-> isServer,
   transport |-> transport, reconnect |-> reconnect, transform |-> transform,
   events |-> events,
   url |-> url, prevUrl |-> prevUrl,
   source |-> source, data |-> data, error |-> error, readyState |-> readyState,
   retriesLeft |-> retriesLeft, reconnectTimer |-> reconnectTimer,
   currentCleanup |-> currentCleanup, disposed |-> disposed, timers |-> timers,
   nextId |-> nextId, opened |-> opened, instances |-> instances, proxies |-> proxies,
   sent |-> sent, received |-> received, toClient |-> toClient,
   connections |-> connections, heard |-> heard, called |-> called]

Becomes(s) ==
  /\ isServer' = s.isServer
  /\ transport' = s.transport /\ reconnect' = s.reconnect /\ url' = s.url
  /\ transform' = s.transform /\ events' = s.events
  /\ prevUrl' = s.prevUrl /\ source' = s.source /\ data' = s.data /\ error' = s.error
  /\ readyState' = s.readyState /\ retriesLeft' = s.retriesLeft
  /\ reconnectTimer' = s.reconnectTimer /\ currentCleanup' = s.currentCleanup
  /\ disposed' = s.disposed /\ timers' = s.timers /\ nextId' = s.nextId
  /\ opened' = s.opened /\ instances' = s.instances /\ proxies' = s.proxies
  /\ sent' = s.sent /\ received' = s.received /\ toClient' = s.toClient
  /\ connections' = s.connections /\ heard' = s.heard /\ called' = s.called

Starts(s) ==
  /\ isServer = s.isServer
  /\ transport = s.transport /\ reconnect = s.reconnect /\ url = s.url
  /\ transform = s.transform /\ events = s.events
  /\ prevUrl = s.prevUrl /\ source = s.source /\ data = s.data /\ error = s.error
  /\ readyState = s.readyState /\ retriesLeft = s.retriesLeft
  /\ reconnectTimer = s.reconnectTimer /\ currentCleanup = s.currentCleanup
  /\ disposed = s.disposed /\ timers = s.timers /\ nextId = s.nextId
  /\ opened = s.opened /\ instances = s.instances /\ proxies = s.proxies
  /\ sent = s.sent /\ received = s.received /\ toClient = s.toClient
  /\ connections = s.connections /\ heard = s.heard /\ called = s.called

\* no user callback has run in this task (yet)
NoCall == [cb |-> "none", h |-> undefined]

\* no event has reached a callback of the caller in this task
NoEvent == [type |-> "none", data |-> "none"]

\* the state a task starts from
Now == [St EXCEPT !.called = NoCall, !.heard = NoEvent]

\* ------------------------------------------------------- retry arithmetic
\* `retriesLeft > 0` and `retriesLeft--` on a number that may be Infinity
Positive(r) == r > 0

Decrement(r) == IF r = Infinity THEN Infinity ELSE r - 1

\* reconnectConfig that gives `reconnect: true` a single retry
reconnectConfig_trueOnce(opt) ==
  IF opt.kind = "true" THEN [retries |-> 1]
  ELSE IF opt.kind = "false" THEN [retries |-> 0]
  ELSE [retries |-> opt.retries]

reconnectConfig(opt) ==
  IF opt.kind = "true" THEN [retries |-> Infinity]
  ELSE IF opt.kind = "false" THEN [retries |-> 0]
  ELSE [retries |-> opt.retries]

\* reconnectConfig.retries ?? 0
configuredRetries(opt) ==
  IF reconnectConfig(opt).retries = Absent THEN 0 ELSE reconnectConfig(opt).retries

\* ------------------------------------------------------------ SSEOptions
\* the names of the custom events a caller may pass handlers for
EventNames == {"tick"}

\* the event types every connection has a callback option for
StandardEvents == {"open", "message", "error"}

\* an options bag as the factories see it: the credentials flag ("undefined" when
\* not given), the names of options.events, and whose onOpen/onMessage/onError
\* and named handlers it carries: the manager's, the worker's relays or recording
\* callbacks of a caller who uses the factory directly
SSEOptions ==
  [withCredentials : {"undefined", "true"}, events : SUBSET EventNames,
   handlers : {"manager", "relay", "caller"}]

\* the options _open passes to the source factory: the manager's own handlers,
\* options.events, and options.withCredentials, which no caller of the model gives
ManagerOptions(s) ==
  [withCredentials |-> "undefined", events |-> s.events, handlers |-> "manager"]

\* the option the callback for events of type ty was passed as
callbackName(ty) ==
  IF ty = "open" THEN "onOpen"
  ELSE IF ty = "message" THEN "onMessage"
  ELSE IF ty = "error" THEN "onError"
  ELSE ty

\* a callback of the caller runs for an event of type ty with payload d of handle h
callerHears(s, h, ty, d) ==
  [s EXCEPT !.called = [cb |-> callbackName(ty), h |-> h],
            !.heard = [type |-> ty, data |-> d]]

\* ------------------------------------------------------ worker transport
postMessage(s, m) ==
  [s EXCEPT !.sent = Append(@, m)]

\* new WorkerEventSource(target, url, options)
\* the connect message of SSEWorkerMessage
connectMessage(id, resolvedUrl, options) ==
  [type |-> "connect", id |-> id, url |-> resolvedUrl,
   withCredentials |-> options.withCredentials, events |-> options.events]

\* a WorkerEventSource that asks for no named events
WorkerEventSource_noEvents(s, resolvedUrl, options) ==
  postMessage(
    [s EXCEPT !.proxies = (s.nextId :> [readyState |-> CONNECTING, subscribed |-> TRUE,
                                        listening |-> FALSE, events |-> {},
                                        handlers |-> "none"]) @@ @,
              !.nextId = @ + 1],
    connectMessage(s.nextId, resolvedUrl, [options EXCEPT !.events = {}]))

WorkerEventSource(s, resolvedUrl, options) ==
  postMessage(
    [s EXCEPT !.proxies = (s.nextId :> [readyState |-> CONNECTING, subscribed |-> TRUE,
                                        listening |-> FALSE, events |-> {},
                                        handlers |-> "none"]) @@ @,
              !.nextId = @ + 1],
    connectMessage(s.nextId, resolvedUrl, options))

\* close() that leaves the listener on the channel
WorkerEventSource_close_staysSubscribed(s, h) ==
  LET s1 == [s EXCEPT !.proxies[h].readyState = CLOSED]
  IN postMessage(s1, [type |-> "disconnect", id |-> h])

\* WorkerEventSource.close()
WorkerEventSource_close(s, h) ==
  LET s1 == [s EXCEPT !.proxies[h].readyState = CLOSED]
      s2 == postMessage(s1, [type |-> "disconnect", id |-> h])
  IN [s2 EXCEPT !.proxies[h].subscribed = FALSE]

\* makeSSEWorker(target)(url, options): the proxy with the handlers of options
\* attached
makeSSEWorker(s, resolvedUrl, options) ==
  [WorkerEventSource(s, resolvedUrl, options)
     EXCEPT !.proxies[s.nextId].listening = TRUE,
            !.proxies[s.nextId].events = options.events,
            !.proxies[s.nextId].handlers = options.handlers]

\* the cleanup function makeSSEWorker returns
makeSSEWorker_cleanup(s, h) ==
  [WorkerEventSource_close(s, h) EXCEPT !.proxies[h].listening = FALSE]

\* ------------------------------------------------- raw connection factory
\* makeSSE(url, options) called in context ctx ("main", or in a worker "worker" or
\* the port its relays post back on) for handle id
makeSSE(s, id, ctx, options) ==
  [s EXCEPT !.instances = (id :> [readyState |-> CONNECTING, listening |-> TRUE,
                                  ctx |-> ctx,
                                  withCredentials |-> options.withCredentials,
                                  events |-> options.events,
                                  handlers |-> options.handlers]) @@ @]

\* a cleanup that closes the source and leaves the listeners attached
makeSSE_cleanup_keepsListeners(s, h) ==
  [s EXCEPT !.instances[h].readyState = CLOSED]

\* the cleanup function makeSSE returns: source.close() and removeEventListener
makeSSE_cleanup(s, h) ==
  [s EXCEPT !.instances[h].readyState = CLOSED, !.instances[h].listening = FALSE]

\* ------------------------------------------------------------- createSSE
\* clearReconnectTimer that cancels nothing
clearReconnectTimer_noop(s) == s

clearReconnectTimer(s) ==
  IF s.reconnectTimer # undefined
  THEN [s EXCEPT !.timers = {t \in @ : t.id # s.reconnectTimer},
                 !.reconnectTimer = undefined]
  ELSE s

\* the source factory _open calls: makeSSE by default, options.source when given
sourceFn(s, resolvedUrl) ==
  IF s.transport = "worker"
  THEN makeSSEWorker(s, resolvedUrl, ManagerOptions(s))
  ELSE [makeSSE(s, s.nextId, "main", ManagerOptions(s)) EXCEPT !.nextId = @ + 1]

\* the release function the factory returned for handle h
cleanup(s, h) ==
  IF s.transport = "worker" THEN makeSSEWorker_cleanup(s, h) ELSE makeSSE_cleanup(s, h)

\* es.readyState of the handle the manager holds
handleReadyState(s, h) ==
  IF s.transport = "worker" THEN s.proxies[h].readyState ELSE s.instances[h].readyState

handleOpen(s, h) ==
  [s EXCEPT !.readyState = OPEN, !.error = undefined, !.called = [cb |-> "onOpen", h |-> h]]

\* options.transform(raw) for the transform option tf
applyTransform(tf, raw) ==
  IF tf = "parse" THEN (IF raw = "a" THEN "A" ELSE Thrown) ELSE raw

\* handleMessage that catches what the transform throws and stores the raw payload
handleMessage_catches(s, h, payload) ==
  LET value == IF s.transform # "none" THEN applyTransform(s.transform, payload)
               ELSE payload
  IN [s EXCEPT !.data = IF value = Thrown THEN payload ELSE value,
               !.called = [cb |-> "onMessage", h |-> h]]

\* handleMessage that stores the raw payload, not the transformed one
handleMessage_raw(s, h, payload) ==
  LET value == IF s.transform # "none" THEN applyTransform(s.transform, payload)
               ELSE payload
  IN IF value = Thrown
     THEN [s EXCEPT !.called = [cb |-> "uncaught", h |-> h]]
     ELSE [s EXCEPT !.data = payload, !.called = [cb |-> "onMessage", h |-> h]]

handleMessage(s, h, payload) ==
  LET value == IF s.transform # "none" THEN applyTransform(s.transform, payload)
               ELSE payload
  IN IF value = Thrown
     THEN [s EXCEPT !.called = [cb |-> "uncaught", h |-> h]]
     ELSE [s EXCEPT !.data = value, !.called = [cb |-> "onMessage", h |-> h]]

\* handleError that forgets `retriesLeft--`
handleError_noDecrement(s, h) ==
  LET rs == handleReadyState(s, h)
      s1 == [s EXCEPT !.readyState = rs, !.error = h, !.called = [cb |-> "onError", h |-> h]]
  IN IF rs = CLOSED /\ Positive(s1.retriesLeft)
     THEN [s1 EXCEPT !.reconnectTimer = h,
                     !.timers = @ \cup {[id |-> h, url |-> s.opened[h].url]}]
     ELSE s1

\* handleError that forgets the `retriesLeft > 0` test
handleError_noBudgetTest(s, h) ==
  LET rs == handleReadyState(s, h)
      s1 == [s EXCEPT !.readyState = rs, !.error = h, !.called = [cb |-> "onError", h |-> h]]
  IN IF rs = CLOSED
     THEN [s1 EXCEPT !.retriesLeft = Decrement(@),
                     !.reconnectTimer = h,
                     !.timers = @ \cup {[id |-> h, url |-> s.opened[h].url]}]
     ELSE s1

\* handleError that forgets the `es.readyState === EventSource.CLOSED` test
handleError_anyError(s, h) ==
  LET rs == handleReadyState(s, h)
      s1 == [s EXCEPT !.readyState = rs, !.error = h, !.called = [cb |-> "onError", h |-> h]]
  IN IF Positive(s1.retriesLeft)
     THEN [s1 EXCEPT !.retriesLeft = Decrement(@),
                     !.reconnectTimer = h,
                     !.timers = @ \cup {[id |-> h, url |-> s.opened[h].url]}]
     ELSE s1

\* handleError that forgets `setReadyState(es.readyState)`
handleError_keepsState(s, h) ==
  LET rs == handleReadyState(s, h)
      s1 == [s EXCEPT !.error = h, !.called = [cb |-> "onError", h |-> h]]
  IN IF rs = CLOSED /\ Positive(s1.retriesLeft)
     THEN [s1 EXCEPT !.retriesLeft = Decrement(@),
                     !.reconnectTimer = h,
                     !.timers = @ \cup {[id |-> h, url |-> s.opened[h].url]}]
     ELSE s1

\* handleError that forgets `setError(() => e)`
handleError_noRecord(s, h) ==
  LET rs == handleReadyState(s, h)
      s1 == [s EXCEPT !.readyState = rs, !.called = [cb |-> "onError", h |-> h]]
  IN IF rs = CLOSED /\ Positive(s1.retriesLeft)
     THEN [s1 EXCEPT !.retriesLeft = Decrement(@),
                     !.reconnectTimer = h,
                     !.timers = @ \cup {[id |-> h, url |-> s.opened[h].url]}]
     ELSE s1

\* handleError that clears the source signal when it schedules the reconnect
handleError_dropsSource(s, h) ==
  LET rs == handleReadyState(s, h)
      s1 == [s EXCEPT !.readyState = rs, !.error = h, !.called = [cb |-> "onError", h |-> h]]
  IN IF rs = CLOSED /\ Positive(s1.retriesLeft)
     THEN [s1 EXCEPT !.retriesLeft = Decrement(@),
                     !.source = undefined,
                     !.reconnectTimer = h,
                     !.timers = @ \cup {[id |-> h, url |-> s.opened[h].url]}]
     ELSE s1

handleError(s, h) ==
  LET rs == handleReadyState(s, h)
      s1 == [s EXCEPT !.readyState = rs, !.error = h, !.called = [cb |-> "onError", h |-> h]]
  IN IF rs = CLOSED /\ Positive(s1.retriesLeft)
     THEN [s1 EXCEPT !.retriesLeft = Decrement(@),
                     !.reconnectTimer = h,
                     !.timers = @ \cup {[id |-> h, url |-> s.opened[h].url]}]
     ELSE s1

\* _open that clears the recorded error when it starts the new connection
_open_clearsError(s, resolvedUrl, fresh) ==
  LET s1 == clearReconnectTimer(s)
      id == s1.nextId
      s2 == sourceFn(s1, resolvedUrl)
  IN [s2 EXCEPT !.opened = (id :> [url |-> resolvedUrl, fresh |-> fresh]) @@ @,
                !.source = id,
                !.error = undefined,
                !.readyState = handleReadyState(s2, id),
                !.currentCleanup = id]

\* _open that resets the retry counter, as connect does
_open_resetsRetries(s, resolvedUrl, fresh) ==
  LET s1 == clearReconnectTimer(s)
      id == s1.nextId
      s2 == sourceFn(s1, resolvedUrl)
  IN [s2 EXCEPT !.opened = (id :> [url |-> resolvedUrl, fresh |-> fresh]) @@ @,
                !.source = id,
                !.retriesLeft = configuredRetries(s.reconnect),
                !.readyState = handleReadyState(s2, id),
                !.currentCleanup = id]

_open(s, resolvedUrl, fresh) ==
  LET s1 == clearReconnectTimer(s)
      id == s1.nextId
      s2 == sourceFn(s1, resolvedUrl)
  IN [s2 EXCEPT !.opened = (id :> [url |-> resolvedUrl, fresh |-> fresh]) @@ @,
                !.source = id,
                !.readyState = handleReadyState(s2, id),
                !.currentCleanup = id]

\* connect whose _open leaves a pending reconnect task alone
connect_keepsTask(s, resolvedUrl) ==
  LET s1 == [s EXCEPT !.retriesLeft = configuredRetries(s.reconnect)]
      id == s1.nextId
      s2 == sourceFn(s1, resolvedUrl)
  IN [s2 EXCEPT !.opened = (id :> [url |-> resolvedUrl, fresh |-> TRUE]) @@ @,
                !.source = id,
                !.readyState = handleReadyState(s2, id),
                !.currentCleanup = id]

connect(s, resolvedUrl) ==
  _open([s EXCEPT !.retriesLeft = configuredRetries(s.reconnect)], resolvedUrl, TRUE)

\* forgets the handle without calling its release function
releaseCurrent_forget(s) == [s EXCEPT !.currentCleanup = undefined]

\* calls the release function and keeps it as currentCleanup
releaseCurrent_keepsIt(s) ==
  IF s.currentCleanup # undefined THEN cleanup(s, s.currentCleanup) ELSE s

\* currentCleanup?.(); currentCleanup = undefined
releaseCurrent(s) ==
  [(IF s.currentCleanup # undefined THEN cleanup(s, s.currentCleanup) ELSE s)
     EXCEPT !.currentCleanup = undefined]

\* disconnect that leaves the retry budget as it is
disconnect_keepsRetries(s) ==
  LET s1 == clearReconnectTimer(s)
      s2 == releaseCurrent(s1)
  IN [s2 EXCEPT !.source = undefined, !.readyState = CLOSED]

disconnect(s) ==
  LET s1 == clearReconnectTimer(s)
      s2 == releaseCurrent([s1 EXCEPT !.retriesLeft = 0])
  IN [s2 EXCEPT !.source = undefined, !.readyState = CLOSED]

\* reconnect() that opens the new connection without closing the old one
manualReconnect_noClose(s) ==
  LET currentUrl == s.url
  IN connect(s, currentUrl)

manualReconnect(s) ==
  LET currentUrl == s.url
  IN connect(disconnect(s), currentUrl)

\* the reactive computation without the prevUrl guard
urlComputed_noGuard(s, u) ==
  LET s1 == [s EXCEPT !.url = u]
  IN IF s.disposed
     THEN s1
     ELSE connect(releaseCurrent([s1 EXCEPT !.prevUrl = u]), u)

\* the reactive computation that opens the new handle with the budget that is left
urlComputed_keepsBudget(s, u) ==
  LET s1 == [s EXCEPT !.url = u]
  IN IF s.disposed \/ u = s.prevUrl
     THEN s1
     ELSE _open(releaseCurrent([s1 EXCEPT !.prevUrl = u]), u, TRUE)

\* the reactive computation over the address, run when the signal is set to u
urlComputed(s, u) ==
  LET s1 == [s EXCEPT !.url = u]
  IN IF s.disposed \/ u = s.prevUrl
     THEN s1
     ELSE connect(releaseCurrent([s1 EXCEPT !.prevUrl = u]), u)

onCleanup(s) ==
  [releaseCurrent(clearReconnectTimer(s)) EXCEPT !.disposed = TRUE]

\* the state before createSSE runs
Blank(tr, rc, tf, evs, u) ==
  [isServer |-> FALSE,
   transport |-> tr, reconnect |-> rc, transform |-> tf, events |-> evs,
   url |-> u, prevUrl |-> u,
   source |-> undefined, data |-> initialValue, error |-> undefined,
   readyState |-> CONNECTING, retriesLeft |-> configuredRetries(rc),
   reconnectTimer |-> undefined, currentCleanup |-> undefined, disposed |-> FALSE,
   timers |-> {}, nextId |-> 1, opened |-> <<>>, instances |-> <<>>, proxies |-> <<>>,
   sent |-> <<>>, received |-> 0, toClient |-> <<>>, connections |-> {},
   heard |-> NoEvent, called |-> NoCall]

\* the static stand-ins createSSE returns on the server: no signal, no counter and
\* no computation is created
SSRStub(tr, rc, tf, evs, u) ==
  [Blank(tr, rc, tf, evs, u) EXCEPT !.isServer = TRUE, !.readyState = CLOSED,
                               !.retriesLeft = 0]

\* createSSE that leaves the initial connection to a deferred effect
createSSE_deferred(sv, tr, rc, tf, evs, u) ==
  IF sv THEN SSRStub(tr, rc, tf, evs, u)
  ELSE urlComputed(Blank(tr, rc, tf, evs, u), u)

\* createSSE(url, options) up to its return, on a platform where isServer is sv:
\* the stand-ins on the server; on a client the initial connection, then the first
\* run of the reactive computation over the address
createSSE(sv, tr, rc, tf, evs, u) ==
  IF sv THEN SSRStub(tr, rc, tf, evs, u)
  ELSE urlComputed(connect(Blank(tr, rc, tf, evs, u), u), u)

\* the `close` member of what createSSE returned
SSEReturn_close(s) == IF s.isServer THEN s ELSE disconnect(s)

\* a server stub whose reconnect() is the client's
SSEReturn_reconnect_live(s) == manualReconnect(s)

\* the `reconnect` member of what createSSE returned
SSEReturn_reconnect(s) == IF s.isServer THEN s ELSE manualReconnect(s)

Init ==
  \E tr \in {"direct", "worker"}, rc \in ReconnectOptions, tf \in Transforms :
    Starts(createSSE(FALSE, tr, rc, tf, {}, "u1"))

\* ------------------------------------------------------------ worker side
postBack(s, m) == [s EXCEPT !.toClient = Append(@, m)]

\* msg => port.postMessage(msg) of a shared worker: the message goes out on port
portPostMessage(s, port, m) ==
  [s EXCEPT !.toClient = Append(@, [port |-> port, msg |-> m])]

\* the postBack the relays of connection h were made with
postBackOf(s, h, m) ==
  IF s.instances[h].ctx = "worker" THEN postBack(s, m)
  ELSE portPostMessage(s, s.instances[h].ctx, m)

\* handleMessage whose disconnect branch forgets connections.delete
workerHandleMessage_keepsEntry(s, m) ==
  IF m.type = "connect"
  THEN [makeSSE(s, m.id, "worker",
                [withCredentials |-> m.withCredentials, events |-> m.events,
                 handlers |-> "relay"])
          EXCEPT !.connections = @ \cup {m.id}]
  ELSE IF m.type = "disconnect"
  THEN IF m.id \in s.connections THEN makeSSE_cleanup(s, m.id) ELSE s
  ELSE s

\* handleMessage whose disconnect branch deletes the entry without calling it
workerHandleMessage_noRelease(s, m) ==
  IF m.type = "connect"
  THEN [makeSSE(s, m.id, "worker",
                [withCredentials |-> m.withCredentials, events |-> m.events,
                 handlers |-> "relay"])
          EXCEPT !.connections = @ \cup {m.id}]
  ELSE IF m.type = "disconnect"
  THEN [s EXCEPT !.connections = @ \ {m.id}]
  ELSE s

\* handleMessage that posts back on the first port whatever port delivered data
handleMessage_firstPort(s, m, channel) ==
  IF m.type = "connect"
  THEN [makeSSE(s, m.id, "port1",
                [withCredentials |-> m.withCredentials, events |-> m.events,
                 handlers |-> "relay"])
          EXCEPT !.connections = @ \cup {m.id}]
  ELSE IF m.type = "disconnect"
  THEN [(IF m.id \in s.connections THEN makeSSE_cleanup(s, m.id) ELSE s)
          EXCEPT !.connections = @ \ {m.id}]
  ELSE s

\* worker-handler handleMessage(data, postBack); channel names what postBack posts
\* on: "worker" for the dedicated worker's own scope, or a port of a shared worker
handleMessage_worker(s, m, channel) ==
  IF m.type = "connect"
  THEN [makeSSE(s, m.id, channel,
                [withCredentials |-> m.withCredentials, events |-> m.events,
                 handlers |-> "relay"])
          EXCEPT !.connections = @ \cup {m.id}]
  ELSE IF m.type = "disconnect"
  THEN [(IF m.id \in s.connections THEN makeSSE_cleanup(s, m.id) ELSE s)
          EXCEPT !.connections = @ \ {m.id}]
  ELSE s

\* the message listener of a dedicated worker
workerHandleMessage(s, m) == handleMessage_worker(s, m, "worker")

\* ------------------------------------------------- events of an EventSource
\* event.data as a handler reads it: open and error events of the platform have none
evData(ev) == IF "data" \in DOMAIN ev THEN ev.data ELSE "none"

\* options.events[n] of the caller runs for an event of handle h with payload d
eventsHandler(s, h, n, d) ==
  [s EXCEPT !.called = [cb |-> n, h |-> h], !.heard = [type |-> n, data |-> d]]

\* the listener addEventListener("open" | "message" | "error", ...) attached to
\* EventSource h runs for event ev of that type
standardListener(s, h, ev) ==
  IF s.instances[h].handlers = "manager"
  THEN IF ev.type = "open" THEN handleOpen(s, h)
       ELSE IF ev.type = "message" THEN handleMessage(s, h, ev.data)
       ELSE handleError(s, h)
  ELSE IF s.instances[h].handlers = "relay"
  THEN IF ev.type = "open" THEN postBackOf(s, h, [type |-> "open", id |-> h])
       ELSE IF ev.type = "error"
       THEN postBackOf(s, h, [type |-> "error", id |-> h,
                              readyState |-> s.instances[h].readyState])
       ELSE postBackOf(s, h, [type |-> "message", id |-> h, data |-> ev.data,
                              eventType |-> "message"])
  ELSE callerHears(s, h, ev.type, evData(ev))

\* listeners whose relays post every payload as an unnamed event
fire_relaysAsMessage(s, h, ev) ==
  IF ~s.instances[h].listening THEN s
  ELSE LET s1 == IF ev.type \in StandardEvents THEN standardListener(s, h, ev) ELSE s
       IN IF ev.type \notin s.instances[h].events THEN s1
          ELSE IF s.instances[h].handlers = "relay"
          THEN postBackOf(s1, h, [type |-> "message", id |-> h, data |-> evData(ev),
                                  eventType |-> "message"])
          ELSE eventsHandler(s1, h, ev.type, evData(ev))

\* the listeners makeSSE attached to EventSource h run for event ev, whose type is
\* "open", "message", "error" or the name the server gave the event: first the
\* listener of the onOpen/onMessage/onError option when the type is one of these
\* (the manager's handler, the worker's relay or the caller's callback), then the
\* listener options.events has under that name (the caller's handler, or the
\* worker's relay that posts the event back under its name)
fire(s, h, ev) ==
  IF ~s.instances[h].listening THEN s
  ELSE LET s1 == IF ev.type \in StandardEvents THEN standardListener(s, h, ev) ELSE s
       IN IF ev.type \notin s.instances[h].events THEN s1
          ELSE IF s.instances[h].handlers = "relay"
          THEN postBackOf(s1, h, [type |-> "message", id |-> h, data |-> evData(ev),
                                  eventType |-> ev.type])
          ELSE eventsHandler(s1, h, ev.type, evData(ev))

\* ------------------------------------------- client side of the channel
\* a proxy whose error events reach no listener
proxyDispatch_dropsErrors(s, h, m) ==
  LET ty == IF m.type = "message" THEN m.eventType ELSE m.type
      d  == IF m.type = "message" THEN m.data ELSE "none"
  IN IF ~s.proxies[h].listening \/ ty = "error" THEN s
     ELSE LET s1 == IF ty \notin StandardEvents THEN s
                    ELSE IF s.proxies[h].handlers = "manager"
                    THEN IF ty = "open" THEN handleOpen(s, h)
                         ELSE handleMessage(s, h, d)
                    ELSE callerHears(s, h, ty, d)
          IN IF ty \in s.proxies[h].events THEN eventsHandler(s1, h, ty, d) ELSE s1

\* proxy h dispatches the event message m stands for (for a message, an event of
\* type m.eventType) to the listeners makeSSEWorker attached: the listener of the
\* onOpen/onMessage/onError option for that type, then the one options.events has
\* under that name
proxyDispatch(s, h, m) ==
  LET ty == IF m.type = "message" THEN m.eventType ELSE m.type
      d  == IF m.type = "message" THEN m.data ELSE "none"
  IN IF ~s.proxies[h].listening THEN s
     ELSE LET s1 == IF ty \notin StandardEvents THEN s
                    ELSE IF s.proxies[h].handlers = "manager"
                    THEN IF ty = "open" THEN handleOpen(s, h)
                         ELSE IF ty = "message" THEN handleMessage(s, h, d)
                         ELSE handleError(s, h)
                    ELSE callerHears(s, h, ty, d)
          IN IF ty \in s.proxies[h].events THEN eventsHandler(s1, h, ty, d) ELSE s1

\* _listener that takes every error for the end of the connection
_listener_errorCloses(s, h, m) ==
  IF m.id # h THEN s
  ELSE IF m.type = "open"
  THEN proxyDispatch([s EXCEPT !.proxies[h].readyState = OPEN], h, m)
  ELSE IF m.type = "message" THEN proxyDispatch(s, h, m)
  ELSE IF m.type = "error"
  THEN proxyDispatch([s EXCEPT !.proxies[h].readyState = CLOSED], h, m)
  ELSE s

\* _listener without the `msg.id !== this._id` test
_listener_noIdTest(s, h, m) ==
  IF m.type = "open"
  THEN proxyDispatch([s EXCEPT !.proxies[h].readyState = OPEN], h, m)
  ELSE IF m.type = "message" THEN proxyDispatch(s, h, m)
  ELSE IF m.type = "error"
  THEN proxyDispatch([s EXCEPT !.proxies[h].readyState = m.readyState], h, m)
  ELSE s

\* WorkerEventSource._listener of proxy h
_listener(s, h, m) ==
  IF m.id # h THEN s
  ELSE IF m.type = "open"
  THEN proxyDispatch([s EXCEPT !.proxies[h].readyState = OPEN], h, m)
  ELSE IF m.type = "message" THEN proxyDispatch(s, h, m)
  ELSE IF m.type = "error"
  THEN proxyDispatch([s EXCEPT !.proxies[h].readyState = m.readyState], h, m)
  ELSE s

Min(S) == CHOOSE x \in S : \A y \in S : x <= y

\* the target dispatches m to the listener of every proxy in hs, in creation order
RECURSIVE targetDispatch(_, _, _)
targetDispatch(s, hs, m) ==
  IF hs = {} THEN s
  ELSE targetDispatch(_listener(s, Min(hs), m), hs \ {Min(hs)}, m)

\* ----------------------------------------------------------------- actions
\* a fresh handle can still be opened within the bound
CanOpen == nextId <= MaxHandles

\* an event of EventSource h can be handled: in the worker it needs room in the channel
CanFire(h) ==
  instances[h].ctx # "main" /\ instances[h].listening => Len(toClient) < MaxQueue

\* the connection of EventSource h is established
ESOpen(h) ==
  /\ instances[h].readyState = CONNECTING
  /\ CanFire(h)
  /\ Becomes(fire([Now EXCEPT !.instances[h].readyState = OPEN], h, [type |-> "open"]))

\* the server sends an unnamed event
ESMessage(h, p) ==
  /\ instances[h].readyState = OPEN
  /\ CanFire(h)
  /\ Becomes(fire(Now, h, [type |-> "message", data |-> p]))

\* the connection drops and the platform retries by itself
ESTransientError(h) ==
  /\ instances[h].readyState # CLOSED
  /\ CanFire(h)
  /\ Becomes(fire([Now EXCEPT !.instances[h].readyState = CONNECTING], h,
                  [type |-> "error"]))

\* the platform gives up
ESTerminalError(h) ==
  /\ instances[h].readyState # CLOSED
  /\ CanFire(h)
  /\ Becomes(fire([Now EXCEPT !.instances[h].readyState = CLOSED], h,
                  [type |-> "error"]))

\* the worker takes the next message of the main thread
WorkerReceive ==
  /\ received < Len(sent)
  /\ Becomes(workerHandleMessage([Now EXCEPT !.received = @ + 1], sent[received + 1]))

\* the main thread takes the next message of the worker
ClientReceive ==
  /\ toClient # <<>>
  /\ Becomes(targetDispatch([Now EXCEPT !.toClient = Tail(@)],
                            {h \in DOMAIN proxies : proxies[h].subscribed},
                            Head(toClient)))

\* the reconnect timeout t fires: () => _open(resolvedUrl)
TimerFire(t) ==
  /\ CanOpen
  /\ Becomes(_open([Now EXCEPT !.timers = @ \ {t}], t.url, FALSE))

\* the caller's close()
Close == Becomes(SSEReturn_close(Now))

\* the caller's reconnect()
Reconnect ==
  /\ CanOpen
  /\ Becomes(SSEReturn_reconnect(Now))

\* the address signal is set to u
SetUrl(u) ==
  /\ u # prevUrl /\ ~disposed => CanOpen
  /\ Becomes(urlComputed(Now, u))

\* the owner scope is disposed
Dispose ==
  /\ ~disposed
  /\ Becomes(onCleanup(Now))

Next ==
  \/ \E h \in DOMAIN instances : ESOpen(h)
  \/ \E h \in DOMAIN instances, p \in Payloads : ESMessage(h, p)
  \/ \E h \in DOMAIN instances : ESTransientError(h)
  \/ \E h \in DOMAIN instances : ESTerminalError(h)
  \/ WorkerReceive
  \/ ClientReceive
  \/ \E t \in timers : TimerFire(t)
  \/ Close
  \/ Reconnect
  \/ \E u \in Urls : SetUrl(u)
  \/ Dispose

Spec == Init /\ [][Next]_vars

\* ------------------------------------------------------ views of the state
\* the handles whose release function has not run: their callbacks are still attached
Unreleased ==
  IF transport = "worker"
  THEN {h \in DOMAIN proxies : proxies[h].subscribed}
  ELSE {h \in DOMAIN instances : instances[h].listening}

\* the handles the reconnect timer opened since the last fresh connect
AutoOpened ==
  {h \in DOMAIN opened :
     \A g \in DOMAIN opened : g >= h => ~opened[g].fresh}

\* the reconnect option gives a finite retry budget
FiniteBudget == reconnect.kind = "object" /\ reconnect.retries # Absent

\* the last task ran handleError for an error whose transport-reported readyState is rs
ErrorHandled(rs) ==
  /\ called.cb = "onError"
  /\ handleReadyState(St, called.h) = rs

\* the step ran handleError for an error whose transport-reported readyState is rs
HandlesError(rs) ==
  /\ called'.cb = "onError"
  /\ (IF transport = "worker" THEN proxies'[called'.h].readyState
      ELSE instances'[called'.h].readyState) = rs

\* ------------------------------------------------------------------ claims

\* C1: with reconnect {retries: N} the reconnect task opens at most N handles after
\* one fresh connect, whatever opens and terminal errors happen: the handles it
\* opened plus the task still pending never exceed N, and a terminal error of the
\* freshly connected handle schedules the one attempt when N >= 1.
C1_RetryBudget ==
  FiniteBudget =>
    /\ Cardinality(AutoOpened) + Cardinality(timers) <= reconnect.retries
    /\ ( /\ reconnect.retries >= 1
         /\ ErrorHandled(CLOSED)
         /\ opened[called.h].fresh )
       => timers = {[id |-> called.h, url |-> opened[called.h].url]}

\* N = 1: the one reconnect attempt was made, it failed terminally, nothing is pending
C1_Witness ==
  /\ FiniteBudget /\ reconnect.retries = 1
  /\ Cardinality(AutoOpened) = 1
  /\ ErrorHandled(CLOSED) /\ called.h = 2
  /\ timers = {} /\ retriesLeft = 0

\* C2: a terminal error handled while retriesLeft = 0 schedules no reconnect task and
\* leaves the manager CLOSED; and while the manager is CLOSED with no task pending, a
\* new handle is created only by reconnect() or an address change.
C2_NoRetryWhenExhausted ==
  [][ /\ (HandlesError(CLOSED) /\ retriesLeft = 0) =>
           /\ timers' = timers /\ reconnectTimer' = reconnectTimer
           /\ readyState' = CLOSED /\ nextId' = nextId /\ sent' = sent
      /\ (readyState = CLOSED /\ timers = {} /\ nextId' # nextId) =>
           (Reconnect \/ \E u \in Urls : SetUrl(u)) ]_vars

\* a terminal error arrived with no budget left; a further handle could be opened
C2_Witness ==
  /\ ErrorHandled(CLOSED) /\ retriesLeft = 0 /\ reconnect.kind = "false"
  /\ readyState = CLOSED /\ timers = {} /\ nextId <= MaxHandles

\* C3: a transient error (transport-reported readyState CONNECTING) schedules no
\* reconnect task and creates no handle, whatever the retry budget.
C3_TransientNeverReconnects ==
  [][ HandlesError(CONNECTING) =>
        /\ timers' = timers /\ reconnectTimer' = reconnectTimer
        /\ retriesLeft' = retriesLeft
        /\ nextId' = nextId /\ sent' = sent /\ opened' = opened ]_vars

\* a transient error was handled while budget was left
C3_Witness ==
  /\ ErrorHandled(CONNECTING) /\ retriesLeft > 0 /\ timers = {}

C5_Moves == {<<CONNECTING, OPEN>>, <<CONNECTING, CLOSED>>, <<OPEN, CLOSED>>}

C6_ReleasedBeforeOpen ==
  /\ Cardinality(Unreleased) <= 1
  /\ \A j \in 1..Len(sent) :
       sent[j].type = "connect" =>
         \A i \in 1..(j - 1) :
           sent[i].type = "connect" =>
             \E k \in (i + 1)..(j - 1) :
               sent[k] = [type |-> "disconnect", id |-> sent[i].id]

\* C7: at most one reconnect task is pending, and it is the one the manager
\* remembers, for every sequence of error events, close(), reconnect(), address
\* changes and disposal.
C7_OneTimer ==
  /\ Cardinality(timers) <= 1
  /\ \A t \in timers : reconnectTimer = t.id

\* a task is pending for a handle that a fresh connect opened after the first
C7_Witness ==
  /\ timers # {} /\ reconnectTimer = 2 /\ opened[2].fresh /\ ErrorHandled(CLOSED)

\* C8: an event of a handle that has been released or replaced changes no signal
\* and invokes no user callback: every handler that runs belongs to the handle
\* the manager currently holds, which is unreleased.
C8_NoEventAfterRelease ==
  called.cb # "none" =>
    /\ called.h = currentCleanup
    /\ called.h = source
    /\ called.h \in Unreleased

\* a message of a released proxy is still queued for delivery
C8_Witness ==
  \E i \in 1..Len(toClient) : ~proxies[toClient[i].id].subscribed

\* C9: close() cancels the pending reconnect task, sets retriesLeft to 0, releases
\* the current handle (over the worker transport its disconnect is posted) and sets
\* readyState CLOSED; while closed, no reconnect task is pending, so none opens a handle.
C9_Close ==
  [][ /\ Close =>
           /\ timers' = {} /\ reconnectTimer' = undefined
           /\ retriesLeft' = 0
           /\ readyState' = CLOSED
           /\ source' = undefined /\ currentCleanup' = undefined
           /\ nextId' = nextId
           /\ currentCleanup # undefined =>
                /\ currentCleanup \notin Unreleased'
                /\ transport = "worker" =>
                     sent' = Append(sent, [type |-> "disconnect", id |-> currentCleanup])
                /\ transport = "direct" =>
                     instances'[currentCleanup].readyState = CLOSED
      /\ source = undefined => ~(\E t \in timers : TimerFire(t)) ]_vars

\* close() was called while a reconnect task was pending
C9_Witness ==
  /\ source = undefined /\ readyState = CLOSED /\ ~disposed
  /\ error # undefined /\ reconnect.kind = "true" /\ timers = {}
  /\ retriesLeft = 0

\* C10: reconnect() releases the old handle, which is CLOSED, opens exactly one new
\* handle to the current address, cancels the pending reconnect task, resets
\* retriesLeft to the configured budget and leaves readyState CONNECTING: the state
\* close() followed by connect(current address) leaves.
C10_Reconnect ==
  [][ Reconnect =>
        /\ nextId' = nextId + 1
        /\ source' = nextId /\ currentCleanup' = nextId
        /\ opened'[nextId] = [url |-> url, fresh |-> TRUE]
        /\ nextId \in Unreleased'
        /\ readyState' = CONNECTING
        /\ retriesLeft' = configuredRetries(reconnect)
        /\ timers' = {} /\ reconnectTimer' = undefined
        /\ currentCleanup # undefined =>
             /\ currentCleanup \notin Unreleased'
             /\ (IF transport = "worker" THEN proxies'[currentCleanup].readyState
                 ELSE instances'[currentCleanup].readyState) = CLOSED
        /\ transport = "worker" =>
             sent' = sent
                     \o (IF currentCleanup # undefined
                         THEN <<[type |-> "disconnect", id |-> currentCleanup]>>
                         ELSE <<>>)
                     \o <<connectMessage(nextId, url, ManagerOptions(St))>> ]_vars

\* reconnect() replaced an open handle while budget is configured
C10_Witness ==
  /\ nextId = 3 /\ source = 2 /\ opened[2].fresh /\ readyState = CONNECTING
  /\ FiniteBudget /\ reconnect.retries >= 1 /\ retriesLeft = reconnect.retries
  /\ called = NoCall /\ 1 \notin Unreleased /\ ~disposed
  /\ url = "u1" /\ prevUrl = "u1" /\ error # undefined

\* the transport-reported readyState of handle h after the step
NextHandleReadyState(h) ==
  IF transport = "worker" THEN proxies'[h].readyState ELSE instances'[h].readyState

\* C11: a newly observed address that differs from the previous one releases the
\* prior handle, which reaches CLOSED, and opens exactly one new handle to the new
\* address; a re-evaluation that yields the same address creates no handle and
\* releases nothing.
C11_AddressChange ==
  [][\A u \in Urls : SetUrl(u) =>
       IF u # prevUrl /\ ~disposed
       THEN /\ nextId' = nextId + 1
            /\ DOMAIN opened' = 1..nextId
            /\ opened'[nextId] = [url |-> u, fresh |-> TRUE]
            /\ source' = nextId /\ currentCleanup' = nextId
            /\ nextId \in Unreleased'
            /\ currentCleanup # undefined =>
                 /\ currentCleanup \notin Unreleased'
                 /\ NextHandleReadyState(currentCleanup) = CLOSED
            /\ Unreleased' \ {nextId} = Unreleased \ {currentCleanup}
       ELSE /\ nextId' = nextId /\ opened' = opened
            /\ source' = source /\ currentCleanup' = currentCleanup
            /\ Unreleased' = Unreleased
            /\ instances' = instances /\ proxies' = proxies /\ sent' = sent
            /\ readyState' = readyState]_vars

\* the address changed while the first handle was open: it is released and CLOSED,
\* and the second handle goes to the new address
C11_Witness ==
  /\ url = "u2" /\ prevUrl = "u2" /\ called = NoCall
  /\ source = 2 /\ opened[2] = [url |-> "u2", fresh |-> TRUE]
  /\ Unreleased = {2}
  /\ handleReadyState(St, 1) = CLOSED
  /\ readyState = CONNECTING
  /\ data # initialValue

\* the step is the disposal of the owner scope: the pending reconnect task is
\* cancelled and the current handle released, with a disconnect message over the
\* worker transport
DisposalReleases ==
  Dispose =>
    /\ timers' = {} /\ reconnectTimer' = undefined
    /\ currentCleanup' = undefined
    /\ currentCleanup # undefined =>
         /\ currentCleanup \notin Unreleased'
         /\ NextHandleReadyState(currentCleanup) = CLOSED
         /\ transport = "worker" =>
              sent' = Append(sent, [type |-> "disconnect", id |-> currentCleanup])

\* C12: scope disposal cancels the pending reconnect task and releases the current
\* transport handle (over the worker transport a disconnect message is sent);
\* afterwards no step runs a handler of the manager and no reconnect task is
\* pending or fires.
C12_Disposal ==
  [][/\ DisposalReleases
     /\ disposed => called' = NoCall /\ timers' = {}]_vars

\* C12, as far as the code goes: after disposal no handler runs and no reconnect
\* task is pending as long as the caller has not called reconnect() since
C12_QuietUntilReconnect ==
  [][/\ DisposalReleases
     /\ disposed /\ currentCleanup = undefined /\ ~Reconnect =>
          called' = NoCall /\ timers' = {} /\ currentCleanup' = undefined]_vars

\* a handle opened by reconnect() after the disposal delivers an event
C12_AfterDisposal ==
  /\ disposed /\ currentCleanup # undefined
  /\ called.cb = "onMessage" /\ called.h = currentCleanup

\* C13: a terminal error (transport-reported readyState CLOSED) sets the manager's
\* readyState to CLOSED and records the error as the latest error, whether or not a
\* reconnect is scheduled.
C13_TerminalError ==
  [][HandlesError(CLOSED) =>
       /\ readyState' = CLOSED
       /\ error' = called'.h
       /\ source' = source]_vars

\* a terminal error of an open connection that had delivered data, with a
\* reconnect scheduled
C13_Witness ==
  /\ ErrorHandled(CLOSED)
  /\ readyState = CLOSED /\ error = called.h
  /\ timers # {}
  /\ data # initialValue

\* the step is an operation of the caller or the disposal of the scope
CallerStep ==
  Close \/ Reconnect \/ Dispose \/ (\E u \in Urls : SetUrl(u))

\* the step is the reconnect task firing
TimerStep == \E t \in timers : TimerFire(t)

\* C14: a terminal error with retries remaining schedules the reconnect task for the
\* address of the failed handle and leaves the manager's handle as it is; while the
\* task is pending no step other than the caller's operations opens a connection or
\* changes the handle; when the task fires, exactly one new handle is opened, to the
\* address the failed handle used.
C14_ReconnectTask ==
  [][/\ HandlesError(CLOSED) /\ Positive(retriesLeft) =>
          /\ timers' = {[id |-> called'.h, url |-> opened[called'.h].url]}
          /\ source' = source /\ source = called'.h
          /\ nextId' = nextId /\ opened' = opened
     /\ timers # {} /\ ~CallerStep /\ ~TimerStep =>
          /\ source' = source /\ nextId' = nextId /\ opened' = opened
          /\ timers' = timers
     /\ \A t \in timers : TimerFire(t) =>
          /\ t.id = source
          /\ nextId' = nextId + 1
          /\ DOMAIN opened' = 1..nextId
          /\ opened'[nextId] = [url |-> opened[t.id].url, fresh |-> FALSE]
          /\ \A h \in DOMAIN opened : opened'[h] = opened[h]
          /\ source' = nextId
          /\ nextId \in Unreleased'
          /\ timers' = {}]_vars

\* the reconnect task has fired after the terminal error of an open handle that
\* had delivered data: the new handle goes to the address of the failed one
C14_Witness ==
  /\ called = NoCall /\ timers = {}
  /\ source = 2 /\ ~opened[2].fresh
  /\ opened[2].url = opened[1].url
  /\ readyState = CONNECTING /\ error = 1
  /\ data # initialValue

\* the step delivers an event of type ty of handle h to the listeners the manager
\* attached: directly, or as the message the worker posted back
Delivered(h, ty) ==
  IF transport = "worker"
  THEN /\ toClient # <<>>
       /\ Head(toClient).type = ty /\ Head(toClient).id = h
       /\ h \in DOMAIN proxies /\ proxies[h].subscribed /\ proxies[h].listening
       /\ ClientReceive
  ELSE /\ h \in DOMAIN instances /\ instances[h].listening
       /\ \/ ty = "open" /\ ESOpen(h)
          \/ ty = "message" /\ \E p \in Payloads : ESMessage(h, p)
          \/ ty = "error" /\ (ESTransientError(h) \/ ESTerminalError(h))

\* C15: the latest error is set on every error event, transient or terminal, and is
\* cleared only by an open event: close(), reconnect(), an address change and the
\* scheduled reconnect leave a recorded error in place.
C15_LatestError ==
  [][/\ \A h \in DOMAIN opened :
          /\ Delivered(h, "error") => error' = h /\ called' = [cb |-> "onError", h |-> h]
          /\ Delivered(h, "open") => error' = undefined
     /\ error' # error =>
          IF error' = undefined
          THEN \E h \in DOMAIN opened : Delivered(h, "open")
          ELSE Delivered(error', "error")
     /\ error' # error => ~(CallerStep \/ TimerStep)]_vars

\* an error is still recorded after reconnect() or an address change opened a
\* fresh handle that is not open yet
C15_Witness ==
  /\ error # undefined /\ source # undefined /\ source # error
  /\ opened[source].fresh
  /\ readyState = CONNECTING /\ called = NoCall

\* the step delivers an unnamed message event with payload p of handle h to the
\* manager's message listener
DeliveredMessage(h, p) ==
  /\ Delivered(h, "message")
  /\ IF transport = "worker"
     THEN Head(toClient).eventType = "message" /\ Head(toClient).data = p
     ELSE ESMessage(h, p)

\* what handleMessage stores for payload p when the transform returns
Transformed(p) == IF transform # "none" THEN applyTransform(transform, p) ELSE p

\* C16: data holds the configured initial value until the first message and
\* afterwards the transform of the payload of the most recent unnamed message event
\* the transform accepted; error events, open events, close(), reconnect(), address
\* changes and scheduled reconnects leave data unchanged.
C16_Data ==
  /\ data = initialValue
  /\ [][/\ \A h \in DOMAIN opened, p \in Payloads :
             Transformed(p) # Thrown /\ DeliveredMessage(h, p) =>
               /\ data' = Transformed(p)
               /\ called' = [cb |-> "onMessage", h |-> h]
        /\ data' # data =>
             /\ \E h \in DOMAIN opened : Delivered(h, "message")
             /\ ~(CallerStep \/ TimerStep)
        /\ called'.cb \in {"onOpen", "onError"} => data' = data]_vars

\* the transformed payload survives a terminal error and the scheduled reconnect
C16_Witness ==
  /\ transform = "parse" /\ data = "A"
  /\ error # undefined /\ source # undefined /\ ~opened[source].fresh
  /\ readyState = CONNECTING

\* C17: when the configured transform throws on a message payload the manager does
\* not catch it: the exception leaves the message handler, onMessage is not called,
\* and data, error and readyState keep the values they had before that message.
C17_TransformThrows ==
  [][\A h \in DOMAIN opened, p \in Payloads :
       DeliveredMessage(h, p) /\ Transformed(p) = Thrown =>
         /\ called' = [cb |-> "uncaught", h |-> h]
         /\ data' = data /\ error' = error /\ readyState' = readyState
         /\ source' = source /\ retriesLeft' = retriesLeft /\ timers' = timers]_vars

\* the transform threw on a payload after it had accepted an earlier one
C17_Witness ==
  /\ called.cb = "uncaught" /\ called.h = source
  /\ data = "A" /\ readyState = OPEN

\* C18: when the constructor returns, exactly one transport handle has been opened,
\* to the initial address, it is the manager's handle and readyState is CONNECTING:
\* the first run of the computation over the address has opened no second handle;
\* at no time do observers see a manager that has not started a connection.
C18_Constructed ==
  /\ nextId = 2 /\ DOMAIN opened = {1}
  /\ opened[1] = [url |-> url, fresh |-> TRUE] /\ prevUrl = url
  /\ source = 1 /\ currentCleanup = 1
  /\ Unreleased = {1}
  /\ readyState = CONNECTING /\ handleReadyState(St, 1) = CONNECTING
  /\ transport = "worker" => sent = <<connectMessage(1, url, ManagerOptions(St))>>
  /\ [](/\ nextId >= 2 /\ 1 \in DOMAIN opened
        /\ source = undefined => readyState = CLOSED)

\* the state the constructor returns: the worker has not even seen the connect yet
C18_Witness ==
  /\ called = NoCall /\ ~disposed
  /\ nextId = 2 /\ source = 1 /\ readyState = CONNECTING
  /\ transport = "worker" /\ received = 0 /\ Len(sent) = 1
  /\ data = initialValue /\ error = undefined

\* the step is a fresh connect after construction: reconnect() or a changed address
FreshConnectStep ==
  Reconnect \/ (\E u \in Urls : u # prevUrl /\ ~disposed /\ SetUrl(u))

\* the step schedules a reconnect task
SchedulesReconnect == timers' # {} /\ timers' # timers

\* C19: the remaining retries always satisfy 0 <= retriesLeft <= configured retries;
\* every fresh connect (initial, reconnect(), address change) resets them to the
\* configured budget, every scheduled reconnect takes exactly one of them (one of
\* an unbounded budget leaves it unbounded), they never go below 0, and the
\* scheduled reconnect itself does not reset them.
C19_RetriesRemaining ==
  /\ retriesLeft = configuredRetries(reconnect)
  /\ [](0 <= retriesLeft /\ retriesLeft <= configuredRetries(reconnect))
  /\ [][/\ FreshConnectStep => retriesLeft' = configuredRetries(reconnect)
        /\ SchedulesReconnect =>
             /\ retriesLeft > 0
             /\ retriesLeft' = Decrement(retriesLeft)
             /\ HandlesError(CLOSED)
        /\ TimerStep => retriesLeft' = retriesLeft
        /\ retriesLeft' < retriesLeft => SchedulesReconnect \/ Close
        /\ retriesLeft' > retriesLeft => FreshConnectStep]_vars

\* one retry of the budget is spent and the scheduled reconnect has opened its
\* handle without giving it back
C19_Witness ==
  /\ FiniteBudget /\ reconnect.retries >= 1
  /\ retriesLeft = reconnect.retries - 1
  /\ source # undefined /\ ~opened[source].fresh
  /\ timers = {} /\ called = NoCall

\* createSSE(url, {reconnect: true}) with timers that fire: a pending timeout whose
\* callback can run does run
UnboundedInit == Init /\ reconnect.kind = "true"

FairSpec == UnboundedInit /\ [][Next]_vars /\ WF_vars(TimerStep)

\* C20: with reconnect: true every terminal error schedules a reconnect task,
\* however many terminal errors occurred before, and the budget stays unbounded;
\* unless close() or the disposal of the scope intervenes, each terminal error is
\* eventually followed by a new handle being opened.
C20_Unbounded ==
  /\ [][reconnect.kind = "true" /\ HandlesError(CLOSED) =>
          /\ timers' = {[id |-> called'.h, url |-> opened[called'.h].url]}
          /\ reconnectTimer' = called'.h
          /\ retriesLeft = Infinity /\ retriesLeft' = Infinity]_vars
  /\ \A n \in Ids :
       (reconnect.kind = "true" /\ ErrorHandled(CLOSED) /\ nextId = n)
         ~> (nextId > n \/ source = undefined \/ disposed)

\* the handle the reconnect task opened has failed for good as well, and the next
\* task is pending
C20_Witness ==
  /\ reconnect.kind = "true" /\ ErrorHandled(CLOSED)
  /\ ~opened[called.h].fresh /\ called.h = source
  /\ timers # {} /\ retriesLeft = Infinity

\* C21: when the reconnect option is an object that omits `retries`, the number of
\* reconnect attempts is unbounded: the budget is Infinity and a terminal error
\* schedules a reconnect task.
C21_DefaultRetries ==
  [][reconnect.kind = "object" /\ reconnect.retries = Absent /\ HandlesError(CLOSED) =>
       /\ retriesLeft = Infinity
       /\ timers' = {[id |-> called'.h, url |-> opened[called'.h].url]}]_vars

\* what the code does with an object that omits `retries`: the budget is 0 and the
\* terminal error schedules nothing
C21_NoRetriesByDefault ==
  [][reconnect.kind = "object" /\ reconnect.retries = Absent =>
       /\ retriesLeft = 0 /\ retriesLeft' = 0
       /\ timers' = {}]_vars

\* a terminal error under reconnect: {} (or {delay}) that left no task behind
C21_TerminalUnderDefault ==
  /\ reconnect.kind = "object" /\ reconnect.retries = Absent
  /\ ErrorHandled(CLOSED) /\ timers = {} /\ retriesLeft = 0

\* ------------------------------------------------------ server rendering
\* createSSE(url, options) called on the server, for every address and option
SSRInit ==
  \E tr \in {"direct", "worker"}, rc \in ReconnectOptions, tf \in Transforms,
     u \in Urls :
    Starts(createSSE(TRUE, tr, rc, tf, {}, u))

\* the address signal is set to u on the server: no computation reads it
SSRSetUrl(u) ==
  /\ isServer
  /\ Becomes([Now EXCEPT !.url = u])

\* the owner scope is disposed on the server: no cleanup was registered
SSRDispose ==
  /\ isServer /\ ~disposed
  /\ Becomes([Now EXCEPT !.disposed = TRUE])

SSRNext ==
  \/ Close
  \/ Reconnect
  \/ \E u \in Urls : SSRSetUrl(u)
  \/ SSRDispose

SSRSpec == SSRInit /\ [][SSRNext]_vars

\* C22: on the server the manager is a set of static stand-ins: readyState is always
\* CLOSED, data always the configured initial value, error and source always
\* absent, whatever close(), reconnect(), address changes and disposal happen, and
\* no transport handle, message or reconnect task is ever created.
C22_ServerStub ==
  /\ isServer
  /\ readyState = CLOSED /\ data = initialValue
  /\ error = undefined /\ source = undefined
  /\ nextId = 1 /\ opened = <<>> /\ instances = <<>> /\ proxies = <<>>
  /\ sent = <<>> /\ toClient = <<>> /\ connections = {}
  /\ timers = {} /\ called = NoCall

\* on the server, after the address signal moved away from the initial address and
\* the scope was disposed, under an option that would reconnect on a client
C22_Witness ==
  /\ isServer /\ url # prevUrl /\ disposed
  /\ reconnect.kind = "true" /\ transport = "worker"
  /\ readyState = CLOSED /\ nextId = 1

\* ------------------------------------ the worker channel used by a caller
\* what a caller asks a factory for: an address, the credentials flag and the
\* names of the custom events it passes handlers for
Requests ==
  {[url |-> "u1", withCredentials |-> "undefined", events |-> {}],
   [url |-> "u2", withCredentials |-> "true", events |-> EventNames]}

\* the options bag of request r with recording callbacks of the caller
CallerOptions(r) ==
  [withCredentials |-> r.withCredentials, events |-> r.events, handlers |-> "caller"]

\* no manager exists: a caller uses makeSSEWorker(target) and makeSSE directly
NoManager(tr) ==
  Blank(tr, [kind |-> "false", retries |-> Absent], "none", {}, "u1")

ChannelInit == Starts(NoManager("worker"))

\* the caller calls makeSSEWorker(target)(r.url, options)
CallMakeSSEWorker(r) ==
  /\ CanOpen
  /\ Becomes(makeSSEWorker(Now, r.url, CallerOptions(r)))

\* the caller calls close() of the proxy it was given, once; the callbacks stay
\* attached to the proxy
ProxyClose(h) ==
  /\ proxies[h].subscribed
  /\ Becomes(WorkerEventSource_close(Now, h))

\* the server sends an event named n
ESNamed(h, n, p) ==
  /\ instances[h].readyState = OPEN
  /\ CanFire(h)
  /\ Becomes(fire(Now, h, [type |-> n, data |-> p]))

ChannelNext ==
  \/ \E r \in Requests : CallMakeSSEWorker(r)
  \/ \E h \in DOMAIN proxies : ProxyClose(h)
  \/ WorkerReceive
  \/ ClientReceive
  \/ \E h \in DOMAIN instances : ESOpen(h)
  \/ \E h \in DOMAIN instances, p \in Payloads : ESMessage(h, p)
  \/ \E h \in DOMAIN instances, n \in EventNames, p \in Payloads : ESNamed(h, n, p)
  \/ \E h \in DOMAIN instances : ESTransientError(h)
  \/ \E h \in DOMAIN instances : ESTerminalError(h)

ChannelSpec == ChannelInit /\ [][ChannelNext]_vars

\* the step is the main thread taking the message at the head of the channel
Receives == Len(toClient') < Len(toClient) /\ ClientReceive

\* C23: for any number of proxies on one channel, an inbound message whose id
\* differs from a proxy's own id neither changes that proxy's cached readyState nor
\* raises an event on it: an open, message or error for id A affects only the
\* proxy with id A.
C23_OtherIdsIgnored ==
  [][Receives =>
       /\ \A h \in DOMAIN proxies :
            h # Head(toClient).id =>
              /\ proxies'[h] = proxies[h]
              /\ called'.h # h
       /\ called' # NoCall => called'.h = Head(toClient).id]_vars

\* an open for the second proxy was delivered while the first proxy, still
\* subscribed to the same channel, stays CONNECTING
C23_Witness ==
  /\ called = [cb |-> "onOpen", h |-> 2]
  /\ proxies[1].subscribed /\ proxies[1].readyState = CONNECTING
  /\ proxies[2].subscribed /\ proxies[2].readyState = OPEN

\* creating a proxy posts exactly one message: a connect with an id no earlier
\* proxy or connect had, the address, the credentials flag and the names of the
\* named events and nothing else, and the new proxy is CONNECTING
CreationConnects ==
  \A r \in Requests :
    CallMakeSSEWorker(r) =>
      /\ sent' = Append(sent, [type |-> "connect", id |-> nextId, url |-> r.url,
                               withCredentials |-> r.withCredentials,
                               events |-> r.events])
      /\ nextId \notin DOMAIN proxies
      /\ \A i \in 1..Len(sent) : sent[i].id # nextId
      /\ DOMAIN proxies' = DOMAIN proxies \cup {nextId}
      /\ proxies'[nextId].readyState = CONNECTING
      /\ \A h \in DOMAIN proxies : proxies'[h] = proxies[h]

\* C24: creating a proxy sends exactly one connect message carrying a fresh id, the
\* target address, the credentials flag and the names of the named events, and the
\* proxy's cached readyState is CONNECTING until a message for its id arrives.
C24_ConnectingUntilMessage ==
  [][/\ CreationConnects
     /\ \A h \in DOMAIN proxies :
          proxies[h].readyState = CONNECTING /\ proxies'[h].readyState # CONNECTING =>
            Receives /\ Head(toClient).id = h]_vars

\* C24, amended: creating a proxy sends exactly one connect message carrying a
\* fresh id, the target address, the credentials flag and the names of the named
\* events, and the proxy's cached readyState is CONNECTING until an open or error
\* message for its id arrives or the proxy is closed.
C24_Creation ==
  [][/\ CreationConnects
     /\ \A h \in DOMAIN proxies :
          proxies[h].readyState = CONNECTING /\ proxies'[h].readyState # CONNECTING =>
            \/ /\ Receives /\ Head(toClient).id = h
               /\ Head(toClient).type \in {"open", "error"}
            \/ ProxyClose(h) /\ proxies'[h].readyState = CLOSED]_vars

\* the second proxy asked for credentials and the event "tick"; the worker's
\* connection is open and its first message is in the channel, yet the proxy is
\* still CONNECTING as nothing has arrived for it
C24_Witness ==
  /\ 2 \in DOMAIN proxies /\ proxies[2].subscribed
  /\ proxies[2].readyState = CONNECTING
  /\ \E i \in 1..Len(sent) :
       sent[i] = [type |-> "connect", id |-> 2, url |-> "u2",
                  withCredentials |-> "true", events |-> {"tick"}]
  /\ 2 \in DOMAIN instances /\ instances[2].readyState = OPEN
  /\ toClient # <<>> /\ Head(toClient).id = 2

\* C25: a proxy that has not been closed starts CONNECTING; an open for its id sets
\* its cached readyState to OPEN and raises one open event, an error sets it to the
\* readyState the message carries and raises one error event, a message leaves it
\* as it is, and nothing else changes it: after any sequence of inbound messages it
\* is CONNECTING if no open or error arrived, OPEN if the most recent of them was an
\* open, and the readyState of the most recent error otherwise.
C25_CachedReadyState ==
  [][/\ \A r \in Requests :
          CallMakeSSEWorker(r) => proxies'[nextId].readyState = CONNECTING
     /\ Receives /\ proxies[Head(toClient).id].subscribed =>
          LET m == Head(toClient)
          IN /\ m.type = "open" =>
                  /\ proxies'[m.id].readyState = OPEN
                  /\ called' = [cb |-> "onOpen", h |-> m.id]
                  /\ heard' = [type |-> "open", data |-> "none"]
             /\ m.type = "error" =>
                  /\ proxies'[m.id].readyState = m.readyState
                  /\ called' = [cb |-> "onError", h |-> m.id]
                  /\ heard' = [type |-> "error", data |-> "none"]
             /\ m.type = "message" =>
                  proxies'[m.id].readyState = proxies[m.id].readyState
     /\ \A h \in DOMAIN proxies :
          /\ proxies'[h].subscribed
          /\ proxies'[h].readyState # proxies[h].readyState
          => /\ Receives /\ Head(toClient).id = h
             /\ Head(toClient).type \in {"open", "error"}]_vars

\* an error that carried CONNECTING has just been dispatched on a proxy that is
\* not closed, and the proxy shows CONNECTING
C25_Witness ==
  /\ called.cb = "onError" /\ proxies[called.h].subscribed
  /\ proxies[called.h].readyState = CONNECTING
  /\ heard = [type |-> "error", data |-> "none"]

\* C26: close() of a proxy sets its cached readyState to CLOSED, posts
\* disconnect{id} with the id of the proxy and removes its listener from the
\* channel; a message for that id taken from the channel afterwards, also one the
\* worker posted before it processed the disconnect, runs no callback, raises no
\* event and leaves the proxy as it is, CLOSED.
C26_CloseThenDrop ==
  [][/\ \A h \in DOMAIN proxies :
          ProxyClose(h) =>
            /\ proxies'[h].readyState = CLOSED
            /\ ~proxies'[h].subscribed
            /\ sent' = Append(sent, [type |-> "disconnect", id |-> h])
            /\ \A g \in DOMAIN proxies \ {h} : proxies'[g] = proxies[g]
     /\ toClient # <<>> /\ ~proxies[Head(toClient).id].subscribed /\ Receives =>
          /\ proxies[Head(toClient).id].readyState = CLOSED
          /\ proxies' = proxies
          /\ called' = NoCall /\ heard' = NoEvent]_vars

\* a closed proxy, the disconnect not yet processed by the worker, and an open the
\* worker posted for its id at the head of the channel
C26_Witness ==
  /\ toClient # <<>> /\ Head(toClient).type = "open"
  /\ ~proxies[Head(toClient).id].subscribed
  /\ proxies[Head(toClient).id].readyState = CLOSED
  /\ proxies[Head(toClient).id].listening
  /\ Head(toClient).id \in connections
  /\ [type |-> "disconnect", id |-> Head(toClient).id] = sent[Len(sent)]

\* --------------------------- the worker transport seen as the direct one
\* the manager of a worker-transport state s with every proxy replaced by a local
\* EventSource of the same readyState, made by makeSSE from the options _open
\* passes and the proxy's listeners, and without the channel and the worker
AsDirect(s) ==
  [s EXCEPT
     !.transport = "direct",
     !.instances =
        [h \in DOMAIN s.proxies |->
           [readyState |-> s.proxies[h].readyState,
            listening |-> s.proxies[h].listening,
            ctx |-> "main",
            withCredentials |-> ManagerOptions(s).withCredentials,
            events |-> s.proxies[h].events,
            handlers |-> s.proxies[h].handlers]],
     !.proxies = <<>>, !.sent = <<>>, !.received = 0, !.toClient = <<>>,
     !.connections = {}]

\* the transport event the worker's message m stands for can happen to the local
\* EventSource m.id of the direct state d
DirectEventEnabled(d, m) ==
  IF m.type = "open" THEN d.instances[m.id].readyState = CONNECTING
  ELSE IF m.type = "message" THEN d.instances[m.id].readyState = OPEN
  ELSE d.instances[m.id].readyState # CLOSED

\* the direct state d after that transport event: an open, an unnamed or named
\* event, a transient error (the message carries CONNECTING) or a terminal one
DirectEvent(d, m) ==
  IF m.type = "open"
  THEN fire([d EXCEPT !.instances[m.id].readyState = OPEN], m.id, [type |-> "open"])
  ELSE IF m.type = "message"
  THEN fire(d, m.id, [type |-> m.eventType, data |-> m.data])
  ELSE fire([d EXCEPT !.instances[m.id].readyState = m.readyState], m.id,
            [type |-> "error"])

\* the step leaves everything AsDirect reads as it is: AsDirect(St') = AsDirect(Now)
DirectImageStays ==
  /\ UNCHANGED <<isServer, transport, reconnect, transform, url, prevUrl, source,
                 data, error, readyState, retriesLeft, reconnectTimer,
                 currentCleanup, disposed, timers, nextId, opened, proxies, sent>>
  /\ called' = NoCall /\ heard' = NoEvent

\* C27: a manager on the worker transport and a manager on the direct transport
\* agree step by step. Every transport event delivered to the worker-transport
\* manager (the message of a proxy that is still subscribed) and every caller
\* operation or timer task takes its direct image to the state the same event or
\* operation produces on the direct transport, where that event is possible; all
\* other steps (the worker's own, and messages that are dropped) leave the direct
\* image as it is, a connect message asks the worker for the connection the
\* direct transport would make, and a message the worker posts stands for the
\* event that happened to its real connection in that step. So readyState, data, error and the handles
\* created coincide.
C27_WorkerAsDirect ==
  [][transport = "worker" =>
       LET d == AsDirect(Now)
           e == AsDirect(St')
           m == toClient'[Len(toClient')]
       IN IF received' # received THEN DirectImageStays
          ELSE IF Len(toClient') > Len(toClient)
          THEN /\ DirectImageStays
               /\ toClient' = Append(toClient, m)
               /\ instances' = [instances EXCEPT ![m.id].readyState =
                                   IF m.type = "open" THEN OPEN
                                   ELSE IF m.type = "error" THEN m.readyState
                                   ELSE @]
               /\ m.type = "open" => instances[m.id].readyState = CONNECTING
               /\ m.type = "message" =>
                    instances[m.id].readyState = OPEN /\ m.eventType = "message"
               /\ m.type = "error" =>
                    /\ instances[m.id].readyState # CLOSED
                    /\ m.readyState \in {CONNECTING, CLOSED}
          ELSE IF Len(toClient') < Len(toClient)
          THEN IF proxies[Head(toClient).id].subscribed
               THEN /\ DirectEventEnabled(d, Head(toClient))
                    /\ e = DirectEvent(d, Head(toClient))
               ELSE DirectImageStays
          ELSE /\ \A i \in Len(sent) + 1 .. Len(sent') :
                    sent'[i].type = "connect" =>
                      /\ sent'[i].withCredentials = ManagerOptions(St).withCredentials
                      /\ sent'[i].events = events
                      /\ sent'[i].url = opened'[sent'[i].id].url
               /\ \/ Close /\ e = SSEReturn_close(d)
                  \/ Reconnect /\ e = SSEReturn_reconnect(d)
                  \/ \E u \in Urls : SetUrl(u) /\ e = urlComputed(d, u)
                  \/ Dispose /\ e = onCleanup(d)
                  \/ \E t \in timers :
                       /\ TimerFire(t)
                       /\ e = _open([d EXCEPT !.timers = @ \ {t}], t.url, FALSE)]_vars

\* on the worker transport, a message of the second handle has reached the manager
\* after a reconnect
C27_Witness ==
  /\ transport = "worker"
  /\ called = [cb |-> "onMessage", h |-> 2]
  /\ data \in Payloads /\ readyState = OPEN
  /\ opened[2].fresh = FALSE

\* an event is dispatched on an EventSource that is already closed, as the mock's
\* simulateMessage does whatever the readyState is
DispatchClosed(h, ty, p) ==
  /\ instances[h].readyState = CLOSED
  /\ CanFire(h)
  /\ Becomes(fire(Now, h, [type |-> ty, data |-> p]))

\* ------------------------------------- the worker handler on its own
\* a main thread that posts connect and disconnect messages of its own making and
\* listens to nothing: the ids of connect messages are distinct, the id of a
\* disconnect is any id, connected or not; a connection the registry has let go
\* of may still have events dispatched on it
HandlerInit == Starts(NoManager("worker"))

\* there is room for one more message to the worker
CanPost == Len(sent) < 2 * MaxHandles

PostConnect(r) ==
  /\ CanOpen /\ CanPost
  /\ Becomes(postMessage([Now EXCEPT !.nextId = @ + 1],
                         connectMessage(nextId, r.url, CallerOptions(r))))

PostDisconnect(h) ==
  /\ CanPost
  /\ Becomes(postMessage(Now, [type |-> "disconnect", id |-> h]))

HandlerNext ==
  \/ \E r \in Requests : PostConnect(r)
  \/ \E h \in 1..MaxHandles : PostDisconnect(h)
  \/ WorkerReceive
  \/ ClientReceive
  \/ \E h \in DOMAIN instances : ESOpen(h)
  \/ \E h \in DOMAIN instances : ESTerminalError(h)
  \/ \E h \in DOMAIN instances \ connections,
          ty \in StandardEvents \cup EventNames, p \in Payloads :
       DispatchClosed(h, ty, p)

HandlerSpec == HandlerInit /\ [][HandlerNext]_vars

\* the ids connected and not disconnected since, among the messages the worker
\* has processed
Registered ==
  {h \in 1..MaxHandles :
     \E i \in 1..received :
       /\ sent[i].type = "connect" /\ sent[i].id = h
       /\ \A j \in (i + 1)..received :
            ~(sent[j].type = "disconnect" /\ sent[j].id = h)}

\* C28: after the worker processed any sequence of connect and disconnect messages
\* whose connect ids are distinct, the registry holds exactly the ids connected and
\* not yet disconnected. Processing disconnect{id} for an id in the registry runs
\* its release function (the connection is closed and its relays are detached) and
\* removes the entry, leaving all other connections alone; for an id not in the
\* registry it changes nothing, posts nothing and raises no error.
C28_Registry ==
  /\ [](connections = Registered)
  /\ [][received' # received /\ sent[received + 1].type = "disconnect" =>
          LET id == sent[received + 1].id
          IN /\ called' = NoCall
             /\ toClient' = toClient
             /\ IF id \in connections
                THEN /\ connections' = connections \ {id}
                     /\ instances' = [instances EXCEPT ![id].readyState = CLOSED,
                                                       ![id].listening = FALSE]
                ELSE /\ connections' = connections
                     /\ instances' = instances]_vars

\* the worker has processed connect{1}, disconnect{1} and a second disconnect{1},
\* and a disconnect for the id 2 that was never connected, while its connection 1
\* had opened
C28_Witness ==
  /\ received = 4 /\ nextId = 2
  /\ sent[1].type = "connect"
  /\ sent[2] = [type |-> "disconnect", id |-> 2]
  /\ sent[3] = [type |-> "disconnect", id |-> 1]
  /\ sent[4] = [type |-> "disconnect", id |-> 1]
  /\ connections = {}
  /\ instances[1].readyState = CLOSED /\ ~instances[1].listening

\* the names of the custom events the connect message with id h asked for
listedEvents(h) ==
  sent[CHOOSE i \in 1..Len(sent) : sent[i].type = "connect" /\ sent[i].id = h].events

\* C29: a payload the real connection in the worker emits reaches the client under
\* the event type it was emitted with. The worker relays an unnamed event as
\* message{id, data, eventType "message"}; it relays an event named n as
\* message{id, data, eventType n} if the connect message of the connection listed
\* n, and posts nothing for it otherwise. A proxy that is not closed raises, for a
\* message taken from the channel, one event of type eventType with the payload of
\* the message, which runs onMessage or the handler of that name.
C29_EventTypeKept ==
  [][/\ \A h \in DOMAIN instances, p \in Payloads :
          /\ ESMessage(h, p) =>
               toClient' = Append(toClient, [type |-> "message", id |-> h,
                                             data |-> p, eventType |-> "message"])
          /\ \A n \in EventNames :
               ESNamed(h, n, p) =>
                 toClient' = IF n \in listedEvents(h)
                             THEN Append(toClient, [type |-> "message", id |-> h,
                                                    data |-> p, eventType |-> n])
                             ELSE toClient
     /\ /\ toClient # <<>> /\ Head(toClient).type = "message"
        /\ proxies[Head(toClient).id].subscribed
        /\ Receives
        => LET m == Head(toClient)
           IN /\ m.eventType = "message" \/ m.eventType \in listedEvents(m.id)
              /\ heard' = [type |-> m.eventType, data |-> m.data]
              /\ called' = [cb |-> callbackName(m.eventType), h |-> m.id]]_vars

\* the handler the caller passed for the event named tick has run with the payload
\* the worker relayed under that name
C29_Witness ==
  /\ called.cb = "tick" /\ heard = [type |-> "tick", data |-> "b"]
  /\ proxies[called.h].subscribed /\ proxies[called.h].readyState = OPEN
  /\ "tick" \in listedEvents(called.h)

\* ------------------------------- the raw connection factory used by a caller
RawInit == Starts(NoManager("direct"))

\* the caller calls makeSSE(r.url, options) with recording callbacks
CallMakeSSE(r) ==
  /\ CanOpen
  /\ Becomes(makeSSE([Now EXCEPT !.nextId = @ + 1], nextId, "main", CallerOptions(r)))

\* the caller calls the release function makeSSE returned for h, once
Release(h) ==
  /\ instances[h].listening
  /\ Becomes(makeSSE_cleanup(Now, h))

RawNext ==
  \/ \E r \in Requests : CallMakeSSE(r)
  \/ \E h \in DOMAIN instances : Release(h)
  \/ \E h \in DOMAIN instances : ESOpen(h)
  \/ \E h \in DOMAIN instances, p \in Payloads : ESMessage(h, p)
  \/ \E h \in DOMAIN instances, n \in EventNames, p \in Payloads : ESNamed(h, n, p)
  \/ \E h \in DOMAIN instances : ESTransientError(h)
  \/ \E h \in DOMAIN instances : ESTerminalError(h)
  \/ \E h \in DOMAIN instances, ty \in StandardEvents \cup EventNames, p \in Payloads :
       DispatchClosed(h, ty, p)

RawSpec == RawInit /\ [][RawNext]_vars

\* C30: the release function of makeSSE closes the connection (readyState CLOSED)
\* and detaches the callbacks, whether or not the connection had opened, without
\* an exception and without touching other connections; an event of any type
\* dispatched on a released connection runs no callback, so a callback only ever
\* runs for a connection that has not been released.
C30_Release ==
  [][/\ \A h \in DOMAIN instances :
          /\ Release(h) =>
               /\ instances' = [instances EXCEPT ![h].readyState = CLOSED,
                                                 ![h].listening = FALSE]
               /\ called' = NoCall /\ heard' = NoEvent
          /\ ~instances[h].listening =>
               /\ instances'[h] = instances[h]
               /\ \A ty \in StandardEvents \cup EventNames, p \in Payloads :
                    DispatchClosed(h, ty, p) => called' = NoCall /\ heard' = NoEvent
     /\ called' # NoCall =>
          /\ called'.h \in DOMAIN instances /\ instances[called'.h].listening
          /\ called'.cb # "uncaught"]_vars

\* connection 1 has been released, it is CLOSED with no callback attached, and the
\* named handler of connection 2, which has not been released, has just run
C30_Witness ==
  /\ DOMAIN instances = {1, 2}
  /\ instances[1].readyState = CLOSED /\ ~instances[1].listening
  /\ instances[2].listening
  /\ called = [cb |-> "tick", h |-> 2]

\* ============================================================ transform.ts
\* ------------------------------------------------- strings and JS values
\* the characters of a payload: a digit, a letter, a blank and a line feed
Chars == {"1", "x", " ", "\n"}

\* what JSON.parse and Number() skip at both ends
Whitespace == {" ", "\n"}

\* a string is the sequence of its characters
RawStrings == UNION {[1..n -> Chars] : n \in 0..MaxLen}

\* JS values, tagged with their type
Num(n) == [t |-> "number", v |-> n]
Str(s) == [t |-> "string", v |-> s]
Arr(a) == [t |-> "array", v |-> a]
NaN == [t |-> "NaN", v |-> 0]
Undef == [t |-> "undefined", v |-> 0]

\* an exception of class c raised about the text s
Exc(c, s) == [t |-> "exception", v |-> <<c, s>>]

\* an optional argument that was not passed
NotGiven == [t |-> "notgiven", v |-> 0]

\* how a call ends: with a value or an exception, after calling the functions
\* named in calls, in that order
Returns(f, v) == [threw |-> FALSE, val |-> v, calls |-> <<f>>]
Throws(f, e) == [threw |-> TRUE, val |-> e, calls |-> <<f>>]

\* String.prototype.split("\n")
RECURSIVE split(_)
split(raw) ==
  IF \A i \in 1..Len(raw) : raw[i] # "\n" THEN <<raw>>
  ELSE LET i == CHOOSE k \in 1..Len(raw) :
                  raw[k] = "\n" /\ \A j \in 1..(k - 1) : raw[j] # "\n"
       IN <<SubSeq(raw, 1, i - 1)>> \o split(SubSeq(raw, i + 1, Len(raw)))

\* the text without the whitespace at its ends
RECURSIVE trim(_)
trim(s) ==
  IF s = <<>> THEN s
  ELSE IF Head(s) \in Whitespace THEN trim(Tail(s))
  ELSE IF s[Len(s)] \in Whitespace THEN trim(SubSeq(s, 1, Len(s) - 1))
  ELSE s

\* the number a string of digits denotes
RECURSIVE DigitsValue(_)
DigitsValue(s) ==
  IF s = <<>> THEN 0 ELSE 10 * DigitsValue(SubSeq(s, 1, Len(s) - 1)) + 1

IsDigits(s) == s # <<>> /\ \A i \in 1..Len(s) : s[i] = "1"

\* JSON.parse(text) on this alphabet: a number between optional whitespace, or a
\* SyntaxError
JSONparse(text) ==
  IF IsDigits(trim(text)) THEN Num(DigitsValue(trim(text)))
  ELSE Exc("SyntaxError", text)

IsException(v) == v.t = "exception"

\* ---------------------------------------------------------- transformers
json(raw) ==
  IF IsException(JSONparse(raw)) THEN Throws("json", JSONparse(raw))
  ELSE Returns("json", JSONparse(raw))

\* Array.prototype.map(line => JSON.parse(line)): the parsed lines so far, or the
\* exception of the first line that fails
RECURSIVE mapParse(_)
mapParse(ls) ==
  IF ls = <<>> THEN Arr(<<>>)
  ELSE LET first == JSONparse(Head(ls))
           rest == mapParse(Tail(ls))
       IN IF IsException(first) THEN first
          ELSE IF IsException(rest) THEN rest
          ELSE Arr(<<first>> \o rest.v)

\* ndjson that parses without filtering the empty lines out
ndjson_noFilter(raw) ==
  LET parsed == mapParse(split(raw))
  IN IF IsException(parsed) THEN Throws("ndjson", parsed)
     ELSE Returns("ndjson", parsed)

ndjson(raw) ==
  LET parsed == mapParse(SelectSeq(split(raw), LAMBDA line : line # <<>>))
  IN IF IsException(parsed) THEN Throws("ndjson", parsed)
     ELSE Returns("ndjson", parsed)

lines(raw) ==
  LET kept == SelectSeq(split(raw), LAMBDA line : line # <<>>)
  IN Returns("lines", Arr([i \in 1..Len(kept) |-> Str(kept[i])]))

\* Number(raw)
number(raw) ==
  Returns("number",
          IF trim(raw) = <<>> THEN Num(0)
          ELSE IF IsDigits(trim(raw)) THEN Num(DigitsValue(trim(raw)))
          ELSE NaN)

\* functions of the tests: one that always throws, and arr => arr.length
throwing(x) == Throws("throwing", Exc("Error", <<"fail">>))

length(x) ==
  IF x.t \in {"array", "string"} THEN Returns("length", Num(Len(x.v)))
  ELSE IF x.t = "undefined" THEN Throws("length", Exc("TypeError", <<"length">>))
  ELSE Returns("length", Undef)

\* a function value: a named function, safe(of, fallback) or pipe(a, b)
Named(f) == [fn |-> f]

RECURSIVE call(_, _)

\* safe that lets the exception of the transform through
safe_rethrows(transform_, fallback, raw) == call(transform_, raw)

\* safe(transform, fallback)(raw); fallback is NotGiven when it was not passed
safe(transform_, fallback, raw) ==
  LET r == call(transform_, raw)
  IN IF r.threw
     THEN [threw |-> FALSE,
           val |-> IF fallback = NotGiven THEN Undef ELSE fallback,
           calls |-> r.calls]
     ELSE r

\* pipe that goes on with undefined when a throws
pipe_catches(a, b, raw) ==
  LET r == call(a, raw)
      q == call(b, IF r.threw THEN Undef ELSE r.val)
  IN [q EXCEPT !.calls = r.calls \o q.calls]

\* pipe(a, b)(raw) == b(a(raw))
pipe(a, b, raw) ==
  LET r == call(a, raw)
  IN IF r.threw THEN r
     ELSE LET q == call(b, r.val) IN [q EXCEPT !.calls = r.calls \o q.calls]

\* the function value f applied to x
call(f, x) ==
  IF f.fn = "json" THEN json(x.v)
  ELSE IF f.fn = "ndjson" THEN ndjson(x.v)
  ELSE IF f.fn = "lines" THEN lines(x.v)
  ELSE IF f.fn = "number" THEN number(x.v)
  ELSE IF f.fn = "throwing" THEN throwing(x)
  ELSE IF f.fn = "length" THEN length(x)
  ELSE IF f.fn = "safe" THEN safe(f.of, f.fallback, x)
  ELSE pipe(f.a, f.b, x)

\* ------------------------------------ a transformer applied to a payload
\* functions of a string, the fallbacks passed to safe, and functions of a value
StringFns == {Named(f) : f \in {"json", "ndjson", "lines", "number", "throwing"}}
Fallbacks == {NotGiven, Num(0), Undef}
SafeFns == {[fn |-> "safe", of |-> f, fallback |-> fb] : f \in StringFns, fb \in Fallbacks}
ValueFns == {Named("length"), Named("throwing")}
PipeFns == {[fn |-> "pipe", a |-> a, b |-> b] : a \in StringFns \cup SafeFns, b \in ValueFns}

\* no transformer has been applied yet
NotApplied == [fn |-> "none"]

\* the payload raw has arrived; transform holds the function value applied last
\* and data how that call ended
TransformInit ==
  \E raw \in RawStrings :
    Starts([Blank("direct", [kind |-> "false", retries |-> Absent], NotApplied, {}, "u1")
              EXCEPT !.heard = [type |-> "message", data |-> raw]])

Apply(f) ==
  Becomes([St EXCEPT !.transform = f, !.data = call(f, Str(heard.data))])

ApplyJson == Apply(Named("json"))
ApplyNdjson == Apply(Named("ndjson"))
ApplyLines == Apply(Named("lines"))
ApplyNumber == Apply(Named("number"))
ApplyThrowing == Apply(Named("throwing"))
ApplySafe(f) == Apply(f)
ApplyPipe(f) == Apply(f)

TransformNext ==
  \/ ApplyJson
  \/ ApplyNdjson
  \/ ApplyLines
  \/ ApplyNumber
  \/ ApplyThrowing
  \/ \E f \in SafeFns : ApplySafe(f)
  \/ \E f \in PipeFns : ApplyPipe(f)

TransformSpec == TransformInit /\ [][TransformNext]_vars

\* C31: safe(transform, fallback)(x) never throws; it returns transform(x) when
\* transform does not throw on x, and otherwise the fallback, which is undefined
\* when no fallback was passed.
C31_Safe ==
  transform.fn = "safe" =>
    LET inner == call(transform.of, Str(heard.data))
    IN /\ ~data.threw
       /\ ~inner.threw => data.val = inner.val
       /\ inner.threw /\ transform.fallback # NotGiven =>
            data.val = transform.fallback
       /\ inner.threw /\ transform.fallback = NotGiven => data.val = Undef

\* safe(ndjson) without a fallback has returned undefined for a payload whose
\* second line does not parse
C31_Witness ==
  /\ transform = [fn |-> "safe", of |-> Named("ndjson"), fallback |-> NotGiven]
  /\ heard.data = <<"1", "\n", "x">>
  /\ data.val = Undef /\ ~data.threw

\* the non-empty lines of raw, as the spans <<first, last>> of their characters
LineSpans(raw) ==
  {sp \in (1..Len(raw)) \X (1..Len(raw)) :
     /\ sp[1] <= sp[2]
     /\ \A k \in sp[1]..sp[2] : raw[k] # "\n"
     /\ sp[1] = 1 \/ raw[sp[1] - 1] = "\n"
     /\ sp[2] = Len(raw) \/ raw[sp[2] + 1] = "\n"}

\* the text of a span, and the position of a span among the spans of raw
SpanText(raw, sp) == SubSeq(raw, sp[1], sp[2])
SpanRank(raw, sp) == Cardinality({o \in LineSpans(raw) : o[1] <= sp[1]})

\* C32: ndjson returns the parsed values of the non-empty lines of its input, in
\* input order (empty lines and a trailing line feed add nothing, the empty string
\* gives the empty array); if some non-empty line does not parse it returns
\* nothing and throws the exception of the first such line.
C32_Ndjson ==
  transform.fn = "ndjson" =>
    LET raw == heard.data
        bad == {sp \in LineSpans(raw) : IsException(JSONparse(SpanText(raw, sp)))}
    IN IF bad = {}
       THEN /\ ~data.threw
            /\ data.val.t = "array"
            /\ Len(data.val.v) = Cardinality(LineSpans(raw))
            /\ \A sp \in LineSpans(raw) :
                 data.val.v[SpanRank(raw, sp)] = JSONparse(SpanText(raw, sp))
       ELSE /\ data.threw
            /\ \E sp \in bad :
                 /\ \A o \in bad : sp[1] <= o[1]
                 /\ data.val = JSONparse(SpanText(raw, sp))

\* ndjson has returned the one value of a payload that has an empty first line
\* and a trailing line feed
C32_Witness ==
  /\ transform.fn = "ndjson"
  /\ heard.data = <<"\n", "1", "\n">>
  /\ data = Returns("ndjson", Arr(<<Num(1)>>))

\* C33: pipe(a, b)(x) is b(a(x)): when a returns on x, pipe ends as b ends on that
\* value, having called a and then b; when a throws on x, pipe throws the same
\* exception and b is not called.
C33_Pipe ==
  transform.fn = "pipe" =>
    LET first == call(transform.a, Str(heard.data))
        second == call(transform.b, first.val)
    IN IF first.threw
       THEN data.threw /\ data.val = first.val /\ data.calls = first.calls
       ELSE /\ data.threw = second.threw /\ data.val = second.val
            /\ data.calls = first.calls \o second.calls

\* pipe(ndjson, length) has thrown the SyntaxError of the second line without
\* calling length
C33_Witness ==
  /\ transform = [fn |-> "pipe", a |-> Named("ndjson"), b |-> Named("length")]
  /\ heard.data = <<"1", "\n", "x">>
  /\ data = Throws("ndjson", Exc("SyntaxError", <<"x">>))

\* the manager holds no handle and no reconnect task, and every message on the
\* channel has been processed
ManagerIdleAndDrained ==
  /\ transport = "worker"
  /\ currentCleanup = undefined /\ timers = {}
  /\ received = Len(sent) /\ toClient = <<>>

\* C34: over the worker transport, once the manager has been closed or disposed
\* (it holds no handle) and the channel is drained, the worker registry has no
\* entry left: each connect{id} the manager posted was followed by disconnect{id}.
C34_RegistryEmptied ==
  ManagerIdleAndDrained =>
    /\ connections = {}
    /\ \A i \in 1..Len(sent) :
         sent[i].type = "connect" =>
           \E j \in (i + 1)..Len(sent) :
             sent[j] = [type |-> "disconnect", id |-> sent[i].id]

\* what does hold: the only entries left are those of handles that a reconnect
\* task replaced, whose release function _open never called
C34_OnlyTimerReplacedLeft ==
  ManagerIdleAndDrained =>
    connections = {h \in DOMAIN opened :
                     (h + 1) \in DOMAIN opened /\ ~opened[h + 1].fresh}

\* the ids whose disconnect the worker has processed, after their connect
Disconnected ==
  {h \in 1..MaxHandles :
     \E i \in 1..received, j \in 1..received :
       /\ i < j
       /\ sent[i].type = "connect" /\ sent[i].id = h
       /\ sent[j] = [type |-> "disconnect", id |-> h]}

\* C35: once the worker has processed disconnect{id}, no step posts an open,
\* message or error for that id, whatever events its real connection raises
\* afterwards: the connection is closed and every relay is detached from it.
C35_SilentAfterDisconnect ==
  /\ [](\A h \in Disconnected :
          instances[h].readyState = CLOSED /\ ~instances[h].listening)
  /\ [][Len(toClient') > Len(toClient) =>
          toClient'[Len(toClient')].id \notin Disconnected]_vars

\* connection 1, which asked for the named event, had opened and was disconnected;
\* its open was the last message the worker posted and the channel is empty
C35_Witness ==
  /\ Disconnected = {1}
  /\ sent[1].type = "connect" /\ sent[1].events = EventNames
  /\ received = Len(sent) /\ Len(sent) = 2
  /\ instances[1].readyState = CLOSED /\ ~instances[1].listening
  /\ toClient = <<>>

\* ------------------------------------- a shared worker with several ports
\* the ports of the tabs connected to one shared worker
Ports == {"port1", "port2"}

SharedInit == Starts(NoManager("worker"))

\* the ids port has sent a connect for, and those it has sent a disconnect for
ConnectedOn(port) ==
  {sent[i].msg.id : i \in {k \in 1..Len(sent) :
                             sent[k].port = port /\ sent[k].msg.type = "connect"}}
DisconnectedOn(port) ==
  {sent[i].msg.id : i \in {k \in 1..Len(sent) :
                             sent[k].port = port /\ sent[k].msg.type = "disconnect"}}

\* what every tab asks for: the request that names a custom event
TabRequest == CHOOSE r \in Requests : r.events = EventNames

\* a tab posts connect with a fresh id on its port
PortConnect(port) ==
  /\ CanOpen
  /\ Becomes(postMessage([Now EXCEPT !.nextId = @ + 1],
                         [port |-> port,
                          msg |-> connectMessage(nextId, TabRequest.url,
                                                 CallerOptions(TabRequest))]))

\* a tab posts disconnect for a connection of its own, once
PortDisconnect(port, h) ==
  /\ h \in ConnectedOn(port) \ DisconnectedOn(port)
  /\ Becomes(postMessage(Now, [port |-> port,
                               msg |-> [type |-> "disconnect", id |-> h]]))

\* the port listener of the shared worker takes the next message:
\* handleMessage(ev.data, msg => port.postMessage(msg))
PortReceive ==
  /\ received < Len(sent)
  /\ Becomes(handleMessage_worker([Now EXCEPT !.received = @ + 1],
                                  sent[received + 1].msg, sent[received + 1].port))

\* the tab of the port takes the oldest message the worker posted
PortDeliver ==
  /\ toClient # <<>>
  /\ Becomes([Now EXCEPT !.toClient = Tail(@)])

SharedNext ==
  \/ \E port \in Ports : PortConnect(port)
  \/ \E port \in Ports, h \in 1..MaxHandles : PortDisconnect(port, h)
  \/ PortReceive
  \/ PortDeliver
  \/ \E h \in DOMAIN instances : ESOpen(h)
  \/ \E h \in DOMAIN instances, p \in Payloads : ESMessage(h, p)
  \/ \E h \in DOMAIN instances, n \in EventNames, p \in Payloads : ESNamed(h, n, p)
  \/ \E h \in DOMAIN instances : ESTransientError(h)
  \/ \E h \in DOMAIN instances : ESTerminalError(h)

SharedSpec == SharedInit /\ [][SharedNext]_vars

\* C36: with several ports attached to one shared worker, every open, message or
\* error the worker posts for a connection goes out on the port that delivered the
\* connect message of that connection, and on no other port.
C36_OwnChannel ==
  [][Len(toClient') > Len(toClient) =>
       LET post == toClient'[Len(toClient')]
       IN /\ toClient' = Append(toClient, post)
          /\ post.msg.id \in ConnectedOn(post.port)
          /\ \A other \in Ports \ {post.port} : post.msg.id \notin ConnectedOn(other)]_vars

\* both ports have a connection, and the worker has posted the open of the second
\* port's connection while a message of the first port's is still on its way
C36_Witness ==
  /\ ConnectedOn("port1") = {1} /\ ConnectedOn("port2") = {2}
  /\ Len(toClient) = MaxQueue
  /\ toClient[Len(toClient)] = [port |-> "port2", msg |-> [type |-> "open", id |-> 2]]

\* C37: while the owner scope lives, the address the manager observed last is the
\* value of the address signal; the handle the manager holds was opened with that
\* address, and a pending reconnect task is one for that address: a task scheduled
\* before an address change is cancelled by the change, so it never opens a
\* connection to the old address.
C37_HandleAtObservedAddress ==
  ~disposed =>
    /\ prevUrl = url
    /\ currentCleanup # undefined => opened[currentCleanup].url = url
    /\ \A t \in timers : t.url = url

\* under reconnect: true handle 1 had reported an error; the address has changed
\* since, handle 2 is held, it was opened with the new address, and no task for
\* the old address is pending
C37_Witness ==
  /\ ~disposed /\ reconnect.kind = "true" /\ error = 1
  /\ url = "u2" /\ opened[1].url = "u1"
  /\ currentCleanup = 2 /\ opened[2].url = "u2"
  /\ timers = {}

\* C38: over the worker transport the manager posts at most one disconnect for a
\* connection id, in whatever order close(), reconnect(), address changes and
\* disposal happen; a disconnect is posted only for an id it had connected.
C38_OneDisconnect ==
  transport = "worker" =>
    \A j \in 1..Len(sent) :
      sent[j].type = "disconnect" =>
        /\ \A i \in 1..(j - 1) : sent[i] # sent[j]
        /\ \E i \in 1..(j - 1) : sent[i].type = "connect" /\ sent[i].id = sent[j].id

\* close() and then disposal: one connect and a single disconnect were posted
C38_Witness ==
  /\ transport = "worker" /\ disposed
  /\ source = undefined /\ readyState = CLOSED
  /\ Len(sent) = 2 /\ sent[1].type = "connect"
  /\ sent[2] = [type |-> "disconnect", id |-> 1]

\* the manager as close() leaves it: CLOSED, no source and no handle of its own
ClosedByCaller ==
  readyState = CLOSED /\ source = undefined /\ currentCleanup = undefined

\* C39: close() leaves the manager CLOSED with no handle, and it stays so until
\* reconnect() is called or the computation observes another address; observing
\* another address then opens a fresh handle with the full configured retry
\* budget and readyState CONNECTING.
C39_ClosedUntilReopened ==
  [][/\ ClosedByCaller' \/ ~Close
     /\ ClosedByCaller =>
          IF prevUrl' # prevUrl
          THEN /\ currentCleanup' = nextId /\ source' = nextId
               /\ nextId' = nextId + 1
               /\ opened'[nextId] = [url |-> url', fresh |-> TRUE]
               /\ retriesLeft' = configuredRetries(reconnect)
               /\ readyState' = CONNECTING
          ELSE ClosedByCaller' \/ Reconnect]_vars

\* close() has ended a connection whose error was recorded, on a live manager
\* configured to reconnect: no budget is left, nothing is pending, and a new
\* handle can still be opened
C39_Witness ==
  /\ ClosedByCaller /\ ~disposed
  /\ Positive(configuredRetries(reconnect)) /\ retriesLeft = 0
  /\ error = 1 /\ timers = {} /\ reconnectTimer = undefined
  /\ CanOpen

\* ------------------------------------------------ a manager with named events
\* the names a server gives its events (the `event:` field of the stream); the
\* platform dispatches the event under that name, so a server may also name an
\* event "error"
ServerNames == EventNames \cup {"error"}

\* createSSE(url, {reconnect: true, events}) for every set of names the caller
\* passes handlers for, on either transport
NamedInit ==
  \E tr \in {"direct", "worker"}, evs \in SUBSET ServerNames :
    Starts(createSSE(FALSE, tr, [kind |-> "true", retries |-> Absent], "none", evs, "u1"))

NamedNext ==
  \/ \E h \in DOMAIN instances : ESOpen(h)
  \/ \E h \in DOMAIN instances, p \in Payloads : ESMessage(h, p)
  \/ \E h \in DOMAIN instances, n \in ServerNames, p \in Payloads : ESNamed(h, n, p)
  \/ \E h \in DOMAIN instances : ESTerminalError(h)
  \/ WorkerReceive
  \/ ClientReceive
  \/ \E t \in timers : TimerFire(t)
  \/ Close

NamedSpec == NamedInit /\ [][NamedNext]_vars

\* message m of the worker stands for an event the server named n: the relay of
\* options.events, or for an unlisted "error" the onError relay, which reports the
\* readyState OPEN that no failure of the connection leaves
RelayOfNamed(m, n) ==
  \/ m.type = "message" /\ m.eventType = n
  \/ n = "error" /\ m.type = "error" /\ m.readyState = OPEN

\* in this step an event the server named n reaches the listeners of the handle h
\* the manager was given
NamedDelivered(h, n) ==
  IF transport = "direct"
  THEN \E p \in Payloads : ESNamed(h, n, p)
  ELSE /\ toClient # <<>> /\ Head(toClient).id = h
       /\ proxies[h].subscribed
       /\ RelayOfNamed(Head(toClient), n)
       /\ ClientReceive

\* C40: an event with a name other than "message" never changes data, error or
\* readyState of the manager and runs no callback but the handler registered
\* under its name.
C40_NamedEventFrame ==
  [][\A h \in DOMAIN opened, n \in ServerNames :
       NamedDelivered(h, n) =>
         /\ UNCHANGED <<data, error, readyState>>
         /\ called' \in {NoCall, [cb |-> n, h |-> h]}]_vars

\* what holds of the code: the same for every name that is not the type of a
\* platform event, and a named event with a handler is heard with its payload
C40_CustomNamesOnly ==
  [][\A h \in DOMAIN opened, n \in ServerNames \ StandardEvents :
       NamedDelivered(h, n) =>
         /\ UNCHANGED <<data, error, readyState, retriesLeft, timers, source>>
         /\ IF n \in events
            THEN called' = [cb |-> n, h |-> h] /\ heard'.type = n
            ELSE called' = NoCall /\ heard' = NoEvent]_vars
====
